---------------------------- MODULE Spec2Model ----------------------------
(***************************************************************************)
(* A model of the OpenHPSDR Protocol 1 radio emulator (hpsdr-emu, Rust):   *)
(* the UDP packet engine of protocol1.rs (run_protocol1 and the            *)
(* Protocol1Server handlers) over the radio state, signal generator and    *)
(* echo buffer of radio.rs.                                                *)
(*                                                                         *)
(* Representation choices.                                                 *)
(*  - Bytes are integers 0..255; the bit operations of the source are      *)
(*    computed bit by bit (BitAnd, BitOr, Shr).                            *)
(*  - The u32 sequence counter keeps its width: it is a pair <<hi, lo>> of *)
(*    16-bit halves and wrapping_add carries from lo into hi and drops the *)
(*    carry out of hi.  Frequencies are u32 in the source and are never    *)
(*    used in u32 arithmetic there (only compared, and subtracted as f64); *)
(*    they are plain integers here and the control words enumerated keep   *)
(*    C1 below 0x80, so that every value fits TLC's 32-bit integers.         *)
(*  - A Vec<Complex<f64>> of samples is a run-length list <<v, n>>, ...:   *)
(*    n consecutive samples of abstract value v, adjacent runs of one      *)
(*    value merged, so equal vectors have one representation.              *)
(*  - An outbound datagram is a record of the bytes the source writes by   *)
(*    offset; the IQ payload of a sub-frame is described by its geometry   *)
(*    (rows, row length, first offset after the last row), not by sample   *)
(*    values.  The signal generator's per-DDC tone phase is a float that   *)
(*    only decides sample values and is not modelled.                      *)
(*  - The echo shift-phase accumulator (radians, f64) is an integer count  *)
(*    of units of 2*pi/384000 rad: every allowed sample rate divides       *)
(*    384000, so each increment step*n is a whole number of units.         *)
(*  - The bytes the packing loop of fill_subframe writes are a list of its *)
(*    writes in order (SubframePayload); the mutex and socket operations   *)
(*    of a handler are a list in order (the _locks operators).             *)
(***************************************************************************)
EXTENDS Integers, Sequences, FiniteSets, TLC

(***************************************************************************)
(* Program constants                                                       *)
(***************************************************************************)
PACKET_SIZE == 1032

SYNC == <<127, 127, 127>>

RESPONSE_ADDRS == <<0, 8, 16, 24>>

\* 63 eight-byte TX blocks per inbound sub-frame: sf[8..8 + 63 * 8]
TX_BLOCKS == 63

\* EchoBuffer::new: max_duration = 10.0 (seconds)
MAX_DURATION == 10

\* main: let sample_rate: u32 = 48000, given to RadioState, SignalGenerator, EchoBuffer
BOOT_SAMPLE_RATE == 48000

\* RadioState::new: firmware_version, mercury_versions, penny_version, metis_version
VERSION == 25

\* RadioState::new: rx_frequencies: [7_074_000; 12], tx_frequency: 7_074_000
DEFAULT_FREQ == 7074000

\* rx_frequencies: [u32; 12]
N_RX == 12

\* the unit of the shift-phase accumulator is 2*pi/PHASE_DEN radians
PHASE_DEN == 384000

(***************************************************************************)
(* Bounds of the model                                                     *)
(***************************************************************************)
\* data packets built in one behaviour
MaxPackets == 3

\* inbound sub-frames whose TX samples may be staged in one recording
MaxFeeds == 2

\* the same in the long-recording specification: 7620 * 63 samples are the
\* first count of whole sub-frames above 48000 * 10
MaxLongFeeds == 7620

\* the echo buffer taken alone: feed is called while the staging area holds at
\* most MaxStaged sub-frames' worth of samples, and generate_echo while every
\* playback position is at most MaxPlayed times 63 and every shift phase at
\* most MaxPhase million units in magnitude
MaxStaged == 1

MaxPlayed == 1

MaxPhase == 2

(***************************************************************************)
(* Bytes and fixed-width integers                                          *)
(***************************************************************************)
Min(a, b) == IF a < b THEN a ELSE b

Max(a, b) == IF a > b THEN a ELSE b

Abs(a) == IF a < 0 THEN -a ELSE a

RECURSIVE BitAnd(_, _)
BitAnd(a, b) ==
    IF a = 0 \/ b = 0 THEN 0
    ELSE (IF a % 2 = 1 /\ b % 2 = 1 THEN 1 ELSE 0) + 2 * BitAnd(a \div 2, b \div 2)

RECURSIVE BitOr(_, _)
BitOr(a, b) ==
    IF a = 0 THEN b
    ELSE IF b = 0 THEN a
    ELSE (IF a % 2 = 1 \/ b % 2 = 1 THEN 1 ELSE 0) + 2 * BitOr(a \div 2, b \div 2)

RECURSIVE Shr(_, _)
Shr(a, k) == IF k = 0 THEN a ELSE Shr(a \div 2, k - 1)

\* u16::to_be_bytes
U16BeBytes(x) == <<x \div 256, x % 256>>

\* mutant: the product is kept in 8 bits
U16Mul_EightBit(a, b) == (a * b) % 256

\* u16 multiplication (the telemetry arithmetic is done in u16)
U16Mul(a, b) == (a * b) % 65536

\* mutant: the two middle bytes are taken in the other order
U32FromBe_MiddleSwapped(c1, c2, c3, c4) == ((c1 * 256 + c3) * 256 + c2) * 256 + c4

\* u32::from_be_bytes([c1, c2, c3, c4]); c1 < 128 in every word enumerated
U32FromBe(c1, c2, c3, c4) == ((c1 * 256 + c2) * 256 + c3) * 256 + c4

\* a u32 as <<hi, lo>>, 16 bits each
U32Of(n) == <<(n \div 65536) % 65536, n % 65536>>

\* u32::wrapping_add(1)
U32WrappingInc(v) ==
    IF v[2] = 65535 THEN <<(v[1] + 1) % 65536, 0>> ELSE <<v[1], v[2] + 1>>

\* u32::to_be_bytes
U32BeBytes(v) == <<v[1] \div 256, v[1] % 256, v[2] \div 256, v[2] % 256>>

(***************************************************************************)
(* Sample vectors (run-length lists)                                       *)
(***************************************************************************)
VLen(v) ==
    LET sum[i \in 0..Len(v)] == IF i = 0 THEN 0 ELSE sum[i - 1] + v[i][2]
    IN  sum[Len(v)]

\* n samples of value t
VRun(t, n) == IF n = 0 THEN <<>> ELSE <<<<t, n>>>>

\* Vec::extend_from_slice
VExtend(v, w) ==
    IF w = <<>> THEN v
    ELSE IF v = <<>> THEN w
    ELSE LET l == v[Len(v)]
             f == Head(w)
         IN  IF l[1] = f[1]
             THEN SubSeq(v, 1, Len(v) - 1) \o <<<<l[1], l[2] + f[2]>>>> \o Tail(w)
             ELSE v \o w

\* Vec::truncate(k): the first min(len, k) samples
RECURSIVE VTruncate(_, _)
VTruncate(v, k) ==
    IF k <= 0 \/ v = <<>> THEN <<>>
    ELSE IF Head(v)[2] >= k THEN <<<<Head(v)[1], k>>>>
    ELSE <<Head(v)>> \o VTruncate(Tail(v), k - Head(v)[2])

(***************************************************************************)
(* radio.rs: HpsdrHw                                                       *)
(***************************************************************************)
HpsdrHw ==
    {"Atlas", "Hermes", "HermesII", "Angelia", "Orion", "OrionMkII",
     "HermesLite", "Saturn", "SaturnMkII"}

code(hw) ==
    CASE hw = "Atlas" -> 0
      [] hw = "Hermes" -> 1
      [] hw = "HermesII" -> 2
      [] hw = "Angelia" -> 3
      [] hw = "Orion" -> 4
      [] hw = "OrionMkII" -> 5
      [] hw = "HermesLite" -> 6
      [] hw = "Saturn" -> 10
      [] hw = "SaturnMkII" -> 11

max_ddcs(hw) ==
    CASE hw = "Atlas" -> 2
      [] hw = "Hermes" -> 4
      [] hw = "HermesII" -> 4
      [] hw = "Angelia" -> 5
      [] hw = "Orion" -> 5
      [] hw = "OrionMkII" -> 8
      [] hw = "HermesLite" -> 2
      [] hw = "Saturn" -> 10
      [] hw = "SaturnMkII" -> 10

(***************************************************************************)
(* radio.rs: sample rates of Protocol 1                                    *)
(***************************************************************************)
SAMPLE_RATES_P1 == <<<<48000, 0>>, <<96000, 1>>, <<192000, 2>>, <<384000, 3>>>>

\* mutant: code 3 is not in the table
code_to_sample_rate_NoCode3(c) ==
    IF c = 0 THEN <<48000>> ELSE IF c = 1 THEN <<96000>> ELSE IF c = 2 THEN <<192000>> ELSE <<>>

\* Some(rate) is <<rate>>, None is <<>>
code_to_sample_rate(c) ==
    LET hits == {i \in 1..Len(SAMPLE_RATES_P1) : SAMPLE_RATES_P1[i][2] = c}
    IN  IF hits = {} THEN <<>>
        ELSE <<SAMPLE_RATES_P1[CHOOSE i \in hits : \A j \in hits : i <= j][1]>>

(***************************************************************************)
(* radio.rs: RadioState                                                    *)
(***************************************************************************)
RadioState_new(hw, mac) ==
    [hw |-> hw,
     mac |-> mac,
     firmware_version |-> VERSION,
     mercury_versions |-> <<VERSION, VERSION, VERSION, VERSION>>,
     penny_version |-> VERSION,
     metis_version |-> VERSION,
     sample_rate |-> BOOT_SAMPLE_RATE,
     nddc |-> max_ddcs(hw),
     rx_frequencies |-> [i \in 0..(N_RX - 1) |-> DEFAULT_FREQ],
     tx_frequency |-> DEFAULT_FREQ,
     tx_drive |-> 0,
     running |-> FALSE,
     ptt |-> FALSE,
     seq |-> <<>>]

\* the map after next_seq(stream): entry(stream).or_insert(0), then wrapping_add(1)
SeqGet(seq, stream) == IF stream \in DOMAIN seq THEN seq[stream] ELSE U32Of(0)

next_seq(s, stream) ==
    LET val == SeqGet(s.seq, stream)
    IN  [ret |-> val,
         s |-> [s EXCEPT !.seq =
                   [k \in (DOMAIN s.seq) \cup {stream} |->
                       IF k = stream THEN U32WrappingInc(val) ELSE s.seq[k]]]]

(***************************************************************************)
(* radio.rs: SignalGenerator (the fields the engine writes)                *)
(***************************************************************************)
SignalGenerator_new(sample_rate) == [sample_rate |-> sample_rate]


(***************************************************************************)
(* radio.rs: EchoBuffer                                                    *)
(***************************************************************************)
\* an empty HashMap
EmptyMap == [k \in {} |-> 0]

\* HashMap::insert
MapPut(m, k, v) == [x \in (DOMAIN m) \cup {k} |-> IF x = k THEN v ELSE m[x]]

EchoBuffer_new(sample_rate) ==
    [sample_rate |-> sample_rate,
     max_duration |-> MAX_DURATION,
     echoes |-> EmptyMap,
     playback_pos |-> EmptyMap,
     shift_phase |-> EmptyMap,
     recording |-> <<>>,
     recording_freq |-> 0,
     is_recording |-> FALSE]

\* mutant: the whole staging area is stored, however long
commit_NoTruncate(e) ==
    IF e.recording = <<>> THEN e
    ELSE IF e.recording_freq = 0 THEN [e EXCEPT !.recording = <<>>]
    ELSE [e EXCEPT !.recording = <<>>,
                   !.echoes = MapPut(e.echoes, e.recording_freq, e.recording),
                   !.playback_pos = MapPut(e.playback_pos, e.recording_freq, 0)]

\* mutant: a recording that replaces another keeps its playback position
commit_KeepsPosition(e) ==
    IF e.recording = <<>> THEN e
    ELSE IF e.recording_freq = 0 THEN [e EXCEPT !.recording = <<>>]
    ELSE LET buf == VTruncate(e.recording, e.sample_rate * e.max_duration)
         IN  [e EXCEPT !.recording = <<>>,
                       !.echoes = MapPut(e.echoes, e.recording_freq, buf),
                       !.playback_pos =
                           IF e.recording_freq \in DOMAIN e.playback_pos THEN e.playback_pos
                           ELSE MapPut(e.playback_pos, e.recording_freq, 0)]

commit(e) ==
    IF e.recording = <<>> THEN e
    ELSE IF e.recording_freq = 0 THEN [e EXCEPT !.recording = <<>>]
    ELSE LET max_samples == e.sample_rate * e.max_duration
             buf == VTruncate(e.recording, max_samples)
             taken == [e EXCEPT !.recording = <<>>]
         IN  IF buf = <<>> THEN taken
             ELSE [taken EXCEPT
                     !.echoes = MapPut(e.echoes, e.recording_freq, buf),
                     !.playback_pos = MapPut(e.playback_pos, e.recording_freq, 0)]

start_recording(e, tx_freq) ==
    LET c == IF e.is_recording THEN commit(e) ELSE e
    IN  [c EXCEPT !.recording = <<>>, !.recording_freq = tx_freq, !.is_recording = TRUE]

feed(e, samples) ==
    IF ~e.is_recording \/ samples = <<>> THEN e
    ELSE [e EXCEPT !.recording = VExtend(e.recording, samples)]

stop_recording(e) ==
    IF e.is_recording THEN [commit(e) EXCEPT !.is_recording = FALSE] ELSE e

\* the copy loop of generate_echo: the playback position after n_samples
RECURSIVE PlayLoop(_, _, _)
PlayLoop(pos, remaining, echo_len) ==
    IF remaining <= 0 THEN pos
    ELSE LET available == Min(remaining, echo_len - pos)
         IN  PlayLoop((pos + available) % echo_len, remaining - available, echo_len)

\* one recording's turn in generate_echo's loop over the recorded frequencies
EchoOne(e, freq, n_samples, rx_freq, sample_rate) ==
    LET offset_hz == rx_freq - freq
    IN  IF 2 * Abs(offset_hz) > sample_rate THEN e
        ELSE LET echo_len == VLen(e.echoes[freq])
                 pos0 == IF freq \in DOMAIN e.playback_pos THEN e.playback_pos[freq] ELSE 0
                 pos == PlayLoop(pos0, n_samples, echo_len)
                 phase0 == IF freq \in DOMAIN e.shift_phase THEN e.shift_phase[freq] ELSE 0
                 \* step * n_samples, in units of 2*pi/PHASE_DEN rad; the fold of
                 \* |phase| > 1e6 rad lies beyond any run of MaxPackets packets
                 new_phase == phase0 + offset_hz * n_samples * (PHASE_DEN \div sample_rate)
                 played == [e EXCEPT !.playback_pos = MapPut(e.playback_pos, freq, pos)]
             IN  IF offset_hz # 0
                 THEN [played EXCEPT !.shift_phase = MapPut(e.shift_phase, freq, new_phase)]
                 ELSE played

RECURSIVE EchoAll(_, _, _, _, _)
EchoAll(e, freqs, n_samples, rx_freq, sample_rate) ==
    IF freqs = {} THEN e
    ELSE LET f == CHOOSE x \in freqs : \A y \in freqs : x <= y
         IN  EchoAll(EchoOne(e, f, n_samples, rx_freq, sample_rate),
                     freqs \ {f}, n_samples, rx_freq, sample_rate)

\* the echo buffer after generate_echo (the samples returned are not modelled)
generate_echo(e, n_samples, rx_freq, sample_rate) ==
    IF DOMAIN e.echoes = {} THEN e
    ELSE EchoAll(e, DOMAIN e.echoes, n_samples, rx_freq, sample_rate)

\* unpack_tx_iq_16bit: one sample per whole 8-byte block
unpack_tx_iq_16bit(data) == VRun(data.tone, data.len \div 8)

(***************************************************************************)
(* protocol1.rs: Protocol1Server.  A server value w holds what the handlers *)
(* reach through self: state, siggen, echo (<<>> is None) and control_idx.  *)
(***************************************************************************)
\* mutant: byte [20] is the variant's DDC count, not the current nddc
build_discovery_response_BootNddc(w) ==
    LET s == w.state
    IN  [i \in 1..60 |->
            CASE i = 1 -> 239
              [] i = 2 -> 254
              [] i = 3 -> 2
              [] i \in 4..9 -> s.mac[i - 3]
              [] i = 10 -> s.firmware_version
              [] i = 11 -> code(s.hw)
              [] i = 12 -> 0
              [] i \in 15..18 -> s.mercury_versions[i - 14]
              [] i = 19 -> s.penny_version
              [] i = 20 -> s.metis_version
              [] i = 21 -> max_ddcs(s.hw)
              [] OTHER -> 0]

build_discovery_response(w) ==
    LET s == w.state
    IN  [i \in 1..60 |->
            CASE i = 1 -> 239
              [] i = 2 -> 254
              [] i = 3 -> 2
              [] i \in 4..9 -> s.mac[i - 3]
              [] i = 10 -> s.firmware_version
              [] i = 11 -> code(s.hw)
              [] i = 12 -> 0
              [] i \in 15..18 -> s.mercury_versions[i - 14]
              [] i = 19 -> s.penny_version
              [] i = 20 -> s.metis_version
              [] i = 21 -> s.nddc
              [] OTHER -> 0]

\* mutant: the recorder follows the level of MOX, not its transitions
ControlMox_LevelTriggered(w, c0) ==
    LET mox == BitAnd(c0, 1) # 0
    IN  [w EXCEPT
           !.state.ptt = mox,
           !.echo = IF w.echo = <<>> THEN <<>>
                    ELSE IF mox THEN <<start_recording(w.echo[1], w.state.tx_frequency)>>
                    ELSE <<stop_recording(w.echo[1])>>]

\* the MOX part of process_control (lines 70-87)
ControlMox(w, c0) ==
    LET mox == BitAnd(c0, 1) # 0
    IN  IF mox # w.state.ptt
        THEN [w EXCEPT
                !.state.ptt = mox,
                !.echo = IF w.echo = <<>> THEN <<>>
                         ELSE IF mox THEN <<start_recording(w.echo[1], w.state.tx_frequency)>>
                         ELSE <<stop_recording(w.echo[1])>>]
        ELSE w

\* mutant: nddc is clamped to the DDC count of the hardware variant
ControlAddr_ClampsNddc(w, addr, c1, c2, c3, c4) ==
    CASE addr = 0 ->
           LET rate == code_to_sample_rate(BitAnd(c1, 3))
               w1 == IF rate # <<>> /\ w.state.sample_rate # rate[1]
                     THEN [w EXCEPT !.state.sample_rate = rate[1],
                                    !.siggen.sample_rate = rate[1]]
                     ELSE w
               nddc == Min(BitAnd(Shr(c4, 3), 7) + 1, max_ddcs(w.state.hw))
           IN  [w1 EXCEPT !.state.nddc = nddc]
      [] addr = 2 ->
           [w EXCEPT !.state.tx_frequency = U32FromBe(c1, c2, c3, c4)]
      [] addr >= 4 /\ addr < 18 /\ addr % 2 = 0 ->
           LET ddc_idx == (addr - 4) \div 2
           IN  IF ddc_idx < N_RX
               THEN [w EXCEPT !.state.rx_frequencies[ddc_idx] = U32FromBe(c1, c2, c3, c4)]
               ELSE w
      [] addr = 18 ->
           [w EXCEPT !.state.tx_drive = c1]
      [] OTHER -> w

\* the match on addr of process_control (lines 89-134)
ControlAddr(w, addr, c1, c2, c3, c4) ==
    CASE addr = 0 ->
           LET rate == code_to_sample_rate(BitAnd(c1, 3))
               w1 == IF rate # <<>> /\ w.state.sample_rate # rate[1]
                     THEN [w EXCEPT !.state.sample_rate = rate[1],
                                    !.siggen.sample_rate = rate[1]]
                     ELSE w
               nddc == BitAnd(Shr(c4, 3), 7) + 1
           IN  [w1 EXCEPT !.state.nddc = nddc]
      [] addr = 2 ->
           [w EXCEPT !.state.tx_frequency = U32FromBe(c1, c2, c3, c4)]
      [] addr >= 4 /\ addr < 18 /\ addr % 2 = 0 ->
           LET ddc_idx == (addr - 4) \div 2
           IN  IF ddc_idx < N_RX
               THEN [w EXCEPT !.state.rx_frequencies[ddc_idx] = U32FromBe(c1, c2, c3, c4)]
               ELSE w
      [] addr = 18 ->
           [w EXCEPT !.state.tx_drive = c1]
      [] OTHER -> w

\* mutant: the address is taken from bits 1..3 of C0 only
process_control_NarrowMask(w, c0, c1, c2, c3, c4) ==
    ControlAddr(ControlMox(w, c0), BitAnd(c0, 14), c1, c2, c3, c4)

\* mutant: the address arm runs before the MOX block, so a rising word with
\* address 0x02 starts the recorder on its own frequency
process_control_AddrFirst(w, c0, c1, c2, c3, c4) ==
    ControlMox(ControlAddr(w, BitAnd(c0, 254), c1, c2, c3, c4), c0)

process_control(w, c0, c1, c2, c3, c4) ==
    ControlAddr(ControlMox(w, c0), BitAnd(c0, 254), c1, c2, c3, c4)

\* mutant: the TX samples are fed when ptt was asserted before the control
\* word of the sub-frame is applied
HostSubframe_PttBeforeControl(w, sf) ==
    IF sf.sync # SYNC THEN w
    ELSE LET w1 == process_control(w, sf.c0, sf.c1, sf.c2, sf.c3, sf.c4)
         IN  IF w.state.ptt /\ w1.echo # <<>>
             THEN [w1 EXCEPT !.echo =
                     <<feed(w1.echo[1],
                            unpack_tx_iq_16bit([len |-> TX_BLOCKS * 8, tone |-> sf.tone]))>>]
             ELSE w1

\* one turn of handle_host_data's loop over the offsets 8 and 520
HostSubframe(w, sf) ==
    IF sf.sync # SYNC THEN w
    ELSE LET w1 == process_control(w, sf.c0, sf.c1, sf.c2, sf.c3, sf.c4)
         IN  IF w1.state.ptt /\ w1.echo # <<>>
             THEN [w1 EXCEPT !.echo =
                     <<feed(w1.echo[1],
                            unpack_tx_iq_16bit([len |-> TX_BLOCKS * 8, tone |-> sf.tone]))>>]
             ELSE w1

\* mutant: the sub-frame at offset 520 is processed before the one at offset 8
handle_host_data_SecondFirst(w, data) ==
    IF data.len < PACKET_SIZE THEN w
    ELSE HostSubframe(HostSubframe(w, data.sf[2]), data.sf[1])

handle_host_data(w, data) ==
    IF data.len < PACKET_SIZE THEN w
    ELSE HostSubframe(HostSubframe(w, data.sf[1]), data.sf[2])

\* mutant: the telemetry is computed as if transmitting
Telemetry_IgnoresPtt(s, c0_addr) ==
    CASE c0_addr = 0 ->
           <<0, s.firmware_version, s.penny_version, 0>>
      [] c0_addr = 8 ->
           LET d == s.tx_drive
           IN  U16BeBytes(U16Mul(d, 10)) \o U16BeBytes(Shr(U16Mul(d, d), 4))
      [] c0_addr = 16 ->
           LET d == s.tx_drive
               fwd == Shr(U16Mul(d, d), 4)
           IN  U16BeBytes(Max(fwd \div 50, 1)) \o U16BeBytes(3200)
      [] c0_addr = 24 ->
           U16BeBytes(U16Mul(s.tx_drive, 5)) \o U16BeBytes(3200)
      [] OTHER -> <<0, 0, 0, 0>>

\* the telemetry bytes C1..C4 of an outbound sub-frame (lines 187-229)
Telemetry(s, c0_addr) ==
    CASE c0_addr = 0 ->
           <<0, s.firmware_version, s.penny_version, 0>>
      [] c0_addr = 8 ->
           LET d == s.tx_drive
               exc == IF s.ptt THEN U16Mul(d, 10) ELSE 0
               fwd == IF s.ptt THEN Shr(U16Mul(d, d), 4) ELSE 0
           IN  U16BeBytes(exc) \o U16BeBytes(fwd)
      [] c0_addr = 16 ->
           LET d == s.tx_drive
               fwd == Shr(U16Mul(d, d), 4)
               rev == IF s.ptt THEN Max(fwd \div 50, 1) ELSE 0
           IN  U16BeBytes(rev) \o U16BeBytes(3200)
      [] c0_addr = 24 ->
           LET pa_amps == IF s.ptt THEN U16Mul(s.tx_drive, 5) ELSE 0
           IN  U16BeBytes(pa_amps) \o U16BeBytes(3200)
      [] OTHER -> <<0, 0, 0, 0>>

\* the echo buffer after the generate_echo calls for ddc in from..nddc-1
RECURSIVE EchoDdcs(_, _, _, _, _, _)
EchoDdcs(e, ddc, nddc, spr, rx_freqs, sample_rate) ==
    IF ddc >= nddc THEN e
    ELSE EchoDdcs(generate_echo(e, spr, rx_freqs[ddc], sample_rate),
                  ddc + 1, nddc, spr, rx_freqs, sample_rate)

\* mutant: the PTT bit is left out of C0
ResponseC0_NoPtt(s, c0_addr) == BitOr(c0_addr, 128)

\* the C0 byte of an outbound sub-frame (lines 184-185)
ResponseC0(s, c0_addr) == BitOr(BitOr(c0_addr, 128), IF s.ptt THEN 1 ELSE 0)

\* the rotation index after one sub-frame (line 182)
NextControlIdx(idx) == (idx + 1) % Len(RESPONSE_ADDRS)

\* fill_subframe: the server afterwards and what was written at buf[offset..]
fill_subframe(w, offset) ==
    LET s == w.state
        nddc == Max(s.nddc, 1)
        spr == 504 \div (6 * nddc + 2)
        c0_addr == RESPONSE_ADDRS[(w.control_idx % Len(RESPONSE_ADDRS)) + 1]
        tel == Telemetry(s, c0_addr)
        rx_freqs == [i \in 0..(nddc - 1) |-> s.rx_frequencies[i]]
        echo1 == IF w.echo # <<>>
                 THEN <<EchoDdcs(w.echo[1], 0, nddc, spr, rx_freqs, s.sample_rate)>>
                 ELSE <<>>
    IN  [w |-> [w EXCEPT !.control_idx = NextControlIdx(w.control_idx), !.echo = echo1],
         sf |-> [off |-> offset,
                 sync |-> <<127, 127, 127>>,
                 c0 |-> ResponseC0(s, c0_addr),
                 c1 |-> tel[1], c2 |-> tel[2], c3 |-> tel[3], c4 |-> tel[4],
                 rows |-> spr,
                 rowlen |-> 6 * nddc + 2,
                 end |-> offset + 8 + spr * (6 * nddc + 2)]]

\* pack_iq_24bit_into for ddc in from..nddc-1 (lines 257-260): six bytes per
\* DDC at data_offset.  The writes to the buffer are kept in their order, each
\* with its first index, its length and what it writes: "iq", the bytes of a
\* sample, whose values are not modelled, or "mic", zeros.  top is the highest
\* index written so far; an index outside the buffer panics.
RECURSIVE PackDdcs(_, _, _)
PackDdcs(p, ddc, nddc) ==
    IF p.panicked \/ ddc >= nddc THEN p
    ELSE IF p.data_offset + 5 >= PACKET_SIZE THEN [p EXCEPT !.panicked = TRUE]
    ELSE PackDdcs([writes |-> Append(p.writes, [at |-> p.data_offset, n |-> 6, what |-> "iq"]),
                   data_offset |-> p.data_offset + 6,
                   top |-> Max(p.top, p.data_offset + 5),
                   panicked |-> FALSE],
                  ddc + 1, nddc)

\* the loop over the rows (lines 256-264): the DDCs' samples, then two mic bytes
RECURSIVE PackRows(_, _, _, _)
PackRows(p, row, spr, nddc) ==
    IF p.panicked \/ row >= spr THEN p
    ELSE LET q == PackDdcs(p, 0, nddc)
         IN  IF q.panicked THEN q
             ELSE IF q.data_offset + 1 >= PACKET_SIZE THEN [q EXCEPT !.panicked = TRUE]
             ELSE PackRows([writes |-> Append(q.writes,
                                              [at |-> q.data_offset, n |-> 2, what |-> "mic"]),
                            data_offset |-> q.data_offset + 2,
                            top |-> Max(q.top, q.data_offset + 1),
                            panicked |-> FALSE],
                           row + 1, spr, nddc)

\* mutant: the rows are counted for the whole 512-byte sub-frame
SubframePayload_WholeSubframe(s, offset) ==
    LET nddc == Max(s.nddc, 1)
        spr == 512 \div (6 * nddc + 2)
    IN  PackRows([writes |-> <<>>,
                  data_offset |-> offset + 8,
                  top |-> -1,
                  panicked |-> FALSE],
                 0, spr, nddc)

\* the sample rows fill_subframe packs at offset into the zeroed buffer of
\* build_data_packet (lines 171-172, 255-265, 272)
SubframePayload(s, offset) ==
    LET nddc == Max(s.nddc, 1)
        spr == 504 \div (6 * nddc + 2)
    IN  PackRows([writes |-> <<>>,
                  data_offset |-> offset + 8,
                  top |-> -1,
                  panicked |-> FALSE],
                 0, spr, nddc)

\* the offsets of the two sub-frames of a data packet (lines 284-285)
SubframeOffsets == <<8, 520>>

\* mutant: the rotation index advances once per packet, not per sub-frame
build_data_packet_IdxPerPacket(w) ==
    LET n == next_seq(w.state, "p1_data")
        a == fill_subframe([w EXCEPT !.state = n.s], SubframeOffsets[1])
        b == fill_subframe([a.w EXCEPT !.control_idx = w.control_idx], SubframeOffsets[2])
    IN  [w |-> b.w,
         packet |-> [len |-> PACKET_SIZE,
                     hdr |-> <<239, 254, 1, 6>>,
                     seq |-> U32BeBytes(n.ret),
                     sf |-> <<a.sf, b.sf>>]]

\* build_data_packet: the server afterwards and the packet
build_data_packet(w) ==
    LET n == next_seq(w.state, "p1_data")
        a == fill_subframe([w EXCEPT !.state = n.s], SubframeOffsets[1])
        b == fill_subframe(a.w, SubframeOffsets[2])
    IN  [w |-> b.w,
         packet |-> [len |-> PACKET_SIZE,
                     hdr |-> <<239, 254, 1, 6>>,
                     seq |-> U32BeBytes(n.ret),
                     sf |-> <<a.sf, b.sf>>]]

(***************************************************************************)
(* Datagrams.  An inbound datagram is its source address, its length and   *)
(* the bytes the engine reads: [0..4] and, of a data packet, the two       *)
(* sub-frames' sync and C0..C4 and the value its 63 TX blocks carry.       *)
(***************************************************************************)
HostSf(sync, c, tone) ==
    [sync |-> sync, c0 |-> c[1], c1 |-> c[2], c2 |-> c[3], c3 |-> c[4], c4 |-> c[5],
     tone |-> tone]

NoSyncSf == HostSf(<<0, 0, 0>>, <<1, 2, 0, 0, 24>>, 1)

Datagram(src, len, b0, b1, b2, b3, sfA, sfB) ==
    [src |-> src, len |-> len, b0 |-> b0, b1 |-> b1, b2 |-> b2, b3 |-> b3,
     sf |-> <<sfA, sfB>>]

\* a datagram that is no data packet: the sub-frame slots are never read
Short(src, len, b0, b1, b2, b3) == Datagram(src, len, b0, b1, b2, b3, NoSyncSf, NoSyncSf)

NoOut == [kind |-> "none"]

Reply(dest, bytes) == [kind |-> "reply", dest |-> dest, len |-> Len(bytes), bytes |-> bytes]

DataOut(dest, packet) == [kind |-> "data", dest |-> dest, packet |-> packet]

(***************************************************************************)
(* protocol1.rs: run_protocol1                                             *)
(***************************************************************************)
VARIABLES
    state,        \* RadioState
    siggen,       \* SignalGenerator
    echo,         \* Option<EchoBuffer>: <<>> or <<buffer>>
    control_idx,  \* Protocol1Server.control_idx
    client_addr,  \* Option<SocketAddr>: <<>> or <<addr>>
    streaming,    \* the local flag of run_protocol1
    timer,        \* the interval timer of the streaming branch: <<>> or <<period>>
    inp,          \* what the last step handled
    out,          \* the datagram the last step sent, or NoOut
    stopped,      \* history: a stop was processed and no start accepted since
    nBuilt        \* history: data packets built so far

vars ==
    <<state, siggen, echo, control_idx, client_addr, streaming, timer, inp, out,
      stopped, nBuilt>>

\* everything but the two observation labels and the history variables
engine == <<state, siggen, echo, control_idx, client_addr, streaming, timer>>

Server == [state |-> state, siggen |-> siggen, echo |-> echo, control_idx |-> control_idx]

SetServer(w) ==
    /\ state' = w.state
    /\ siggen' = w.siggen
    /\ echo' = w.echo
    /\ control_idx' = w.control_idx

\* the outcome of a receive handler that changes nothing and sends nothing
Keep(w, ca, st) ==
    [w |-> w, client_addr |-> ca, streaming |-> st, brk |-> FALSE, out |-> NoOut]

\* mutant: the header test without the length
BadHeader_NoLen(d) == d.b0 # 239 \/ d.b1 # 254

\* the header test of both receive branches (lines 362 and 404)
BadHeader(d) == d.len < 4 \/ d.b0 # 239 \/ d.b1 # 254

\* mutant: a discovery request latches its sender as the client
StreamDiscovery_Latches(w, ca, d) ==
    [Keep(w, ca, TRUE) EXCEPT !.client_addr = <<d.src>>,
                              !.out = Reply(d.src, build_discovery_response(w))]

\* streaming loop, type 0x02 (lines 366-371)
StreamDiscovery(w, ca, d) ==
    [Keep(w, ca, TRUE) EXCEPT !.out = Reply(d.src, build_discovery_response(w))]

\* streaming loop, type 0x04 with byte [3] = 0x01 (lines 373-377)
StreamStart(w, ca, d) ==
    [Keep(w, ca, TRUE) EXCEPT !.client_addr = <<d.src>>, !.w.state.running = TRUE]

\* mutant: the stop arm leaves the streaming loop and forgets running
StreamStop_KeepsRunning(w, ca, d) ==
    [Keep(w, ca, TRUE) EXCEPT !.streaming = FALSE, !.brk = TRUE]

\* streaming loop, type 0x04 with byte [3] = 0x00 (lines 378-383)
StreamStop(w, ca, d) ==
    [Keep(w, ca, TRUE) EXCEPT !.w.state.running = FALSE, !.streaming = FALSE, !.brk = TRUE]

\* mutant: a data packet is handled and its sender is not latched
StreamData_NoLatch(w, ca, d) ==
    [Keep(w, ca, TRUE) EXCEPT !.w = handle_host_data(w, d)]

\* streaming loop, type 0x01 (lines 385-388)
StreamData(w, ca, d) ==
    [Keep(w, ca, TRUE) EXCEPT !.client_addr = <<d.src>>, !.w = handle_host_data(w, d)]

\* the receive branch of the streaming loop (lines 358-396)
StreamDispatch(w, ca, d) ==
    IF BadHeader(d) THEN Keep(w, ca, TRUE)
    ELSE CASE d.b2 = 2 -> StreamDiscovery(w, ca, d)
           [] d.b2 = 4 /\ d.len > 3 ->
                IF d.b3 = 1 THEN StreamStart(w, ca, d)
                ELSE IF d.b3 = 0 THEN StreamStop(w, ca, d)
                ELSE Keep(w, ca, TRUE)
           [] d.b2 = 1 -> StreamData(w, ca, d)
           [] OTHER -> Keep(w, ca, TRUE)

\* idle branch, type 0x02 (lines 408-413)
IdleDiscovery(w, ca, d) ==
    [Keep(w, ca, FALSE) EXCEPT !.out = Reply(d.src, build_discovery_response(w))]

\* mutant: a start in the idle state begins a new sequence
IdleStart_ResetsSeq(w, ca, d) ==
    [Keep(w, ca, FALSE) EXCEPT !.client_addr = <<d.src>>,
                               !.w.state.running = TRUE,
                               !.w.state.seq = <<>>,
                               !.streaming = TRUE]

\* mutant: a start in the idle state latches the client and sets running but
\* does not enter the streaming branch
IdleStart_StaysIdle(w, ca, d) ==
    [Keep(w, ca, FALSE) EXCEPT !.client_addr = <<d.src>>,
                               !.w.state.running = TRUE]

\* idle branch, type 0x04 with byte [3] = 0x01 (lines 414-419)
IdleStart(w, ca, d) ==
    [Keep(w, ca, FALSE) EXCEPT !.client_addr = <<d.src>>,
                               !.w.state.running = TRUE,
                               !.streaming = TRUE]

\* idle branch, type 0x04 with byte [3] = 0x00 (lines 420-423)
IdleStop(w, ca, d) ==
    [Keep(w, ca, FALSE) EXCEPT !.w.state.running = FALSE]

\* mutant: while idle a data packet latches its sender and is not handled
IdleData_LatchOnly(w, ca, d) ==
    [Keep(w, ca, FALSE) EXCEPT !.client_addr = <<d.src>>]

\* idle branch, type 0x01 (lines 424-427)
IdleData(w, ca, d) ==
    [Keep(w, ca, FALSE) EXCEPT !.client_addr = <<d.src>>, !.w = handle_host_data(w, d)]

\* the receive of the idle branch (lines 401-430)
IdleDispatch(w, ca, d) ==
    IF BadHeader(d) THEN Keep(w, ca, FALSE)
    ELSE CASE d.b2 = 2 -> IdleDiscovery(w, ca, d)
           [] d.b2 = 4 /\ d.len > 3 /\ d.b3 = 1 -> IdleStart(w, ca, d)
           [] d.b2 = 4 /\ d.len > 3 /\ d.b3 = 0 -> IdleStop(w, ca, d)
           [] d.b2 = 1 -> IdleData(w, ca, d)
           [] OTHER -> Keep(w, ca, FALSE)

\* the datagrams EF FE 04 01 and EF FE 04 00, read off the bytes
HasMagic(d) == d.len >= 4 /\ d.b0 = 239 /\ d.b1 = 254

IsStart(d) == HasMagic(d) /\ d.b2 = 4 /\ d.b3 = 1

IsStop(d) == HasMagic(d) /\ d.b2 = 4 /\ d.b3 = 0

\* the staging area stays within the model's bound
WithinFeeds(w) ==
    IF w.echo = <<>> THEN TRUE ELSE VLen(w.echo[1].recording) <= MaxFeeds * TX_BLOCKS

\* the outcome o of a receive handler becomes the next state
Deliver(o, mode, d) ==
    /\ SetServer(o.w)
    /\ client_addr' = o.client_addr
    /\ streaming' = o.streaming
    /\ timer' = IF o.brk THEN <<>> ELSE timer
    /\ inp' = [kind |-> "recv", mode |-> mode, d |-> d]
    /\ out' = o.out
    /\ stopped' = IF IsStop(d) THEN TRUE ELSE IF IsStart(d) THEN FALSE ELSE stopped
    /\ UNCHANGED nBuilt

Apply(o, mode, d) ==
    /\ WithinFeeds(o.w)
    /\ Deliver(o, mode, d)

\* a datagram received while not streaming
IdleRecv(d) ==
    /\ ~streaming
    /\ Apply(IdleDispatch(Server, client_addr, d), "idle", d)

\* a datagram received in the streaming loop
StreamRecv(d) ==
    /\ streaming
    /\ timer # <<>>
    /\ Apply(StreamDispatch(Server, client_addr, d), "stream", d)

\* recv_from returns Err in either branch: logged, the loop continues
RecvError ==
    /\ streaming => timer # <<>>
    /\ inp' = [kind |-> "recv_err"]
    /\ out' = NoOut
    /\ UNCHANGED <<engine, stopped, nBuilt>>

\* the pacing period of the streaming branch (lines 331-340)
Period(s) ==
    LET nddc == Max(s.nddc, 1)
        spr == 504 \div (6 * nddc + 2)
    IN  [samples_per_packet |-> spr * 2, sample_rate |-> s.sample_rate]

\* the outer loop enters the streaming branch and creates the timer
EnterStreaming ==
    /\ streaming
    /\ timer = <<>>
    /\ timer' = <<Period(state)>>
    /\ inp' = [kind |-> "enter"]
    /\ out' = NoOut
    /\ UNCHANGED <<state, siggen, echo, control_idx, client_addr, streaming, stopped, nBuilt>>

\* the timer branch of the streaming loop (lines 344-357)
Tick ==
    /\ streaming
    /\ timer # <<>>
    /\ inp' = [kind |-> "tick"]
    /\ IF ~state.running
       THEN /\ streaming' = FALSE
            /\ timer' = <<>>
            /\ out' = NoOut
            /\ UNCHANGED <<state, siggen, echo, control_idx, client_addr, stopped, nBuilt>>
       ELSE IF client_addr # <<>>
       THEN /\ nBuilt < MaxPackets
            /\ \E b \in {build_data_packet(Server)} :
                /\ SetServer(b.w)
                /\ out' = DataOut(client_addr[1], b.packet)
                /\ nBuilt' = nBuilt + 1
                /\ UNCHANGED <<client_addr, streaming, timer, stopped>>
       ELSE /\ out' = NoOut
            /\ UNCHANGED <<engine, stopped, nBuilt>>

(***************************************************************************)
(* Configurations and inputs enumerated                                    *)
(***************************************************************************)
\* host socket addresses
Addrs == {"192.168.1.10:1024", "192.168.1.20:50000"}

\* --mac 00:1c:c0:a2:22:5e, and a locally administered unicast one
MacA == <<0, 28, 192, 162, 34, 94>>

MacB == <<2, 17, 34, 51, 68, 85>>

\* what main builds from the command line: --radio, --mac, --echo
Configs ==
    {[hw |-> "Hermes", mac |-> MacA, echo |-> FALSE],
     [hw |-> "Atlas", mac |-> MacB, echo |-> TRUE]}

\* control words C0..C4 of inbound sub-frames
WRate == <<0, 2, 0, 0, 8>>            \* MOX 0, addr 0x00: 192000 Hz, 2 DDCs

WKeyDown == <<19, 100, 0, 0, 0>>      \* MOX 1, addr 0x12: tx_drive 100

WKeyUp == <<18, 100, 0, 0, 0>>        \* MOX 0, addr 0x12: tx_drive 100

Words == {WRate, WKeyDown, WKeyUp}

HostSfs == {NoSyncSf} \cup {HostSf(SYNC, c, 1) : c \in Words}

Runts == {Short(a, 3, 239, 254, 2, 0) : a \in Addrs}

BadMagic == {Short(a, 4, 239, 0, 4, 1) : a \in Addrs} \cup {Short(a, 63, 0, 254, 2, 0) : a \in Addrs}

Discoveries == {Short(a, 63, 239, 254, 2, 0) : a \in Addrs}

Starts == {Short(a, 4, 239, 254, 4, 1) : a \in Addrs}

Stops == {Short(a, 4, 239, 254, 4, 0) : a \in Addrs}

\* type 0x04 with a byte [3] that is neither start nor stop; an unknown type
OtherTypes == {Short(a, 4, 239, 254, 4, 2) : a \in Addrs} \cup {Short(a, 64, 239, 254, 3, 1) : a \in Addrs}

\* type 0x01, one byte short of a data packet, with well-formed sub-frame heads
ShortData ==
    {Datagram(a, PACKET_SIZE - 1, 239, 254, 1, 2, HostSf(SYNC, WKeyDown, 1), HostSf(SYNC, WRate, 1)) :
        a \in Addrs}

DataPackets ==
    {Datagram(a, PACKET_SIZE, 239, 254, 1, 2, x, y) : a \in Addrs, x \in HostSfs, y \in HostSfs}

Datagrams ==
    Runts \cup BadMagic \cup Discoveries \cup Starts \cup Stops \cup OtherTypes
          \cup ShortData \cup DataPackets

(***************************************************************************)
(* The specification                                                       *)
(***************************************************************************)
InitWith(configs) ==
    \E c \in configs :
        /\ state = RadioState_new(c.hw, c.mac)
        /\ siggen = SignalGenerator_new(BOOT_SAMPLE_RATE)
        /\ echo = IF c.echo THEN <<EchoBuffer_new(BOOT_SAMPLE_RATE)>> ELSE <<>>
        /\ control_idx = 0
        /\ client_addr = <<>>
        /\ streaming = FALSE
        /\ timer = <<>>
        /\ inp = [kind |-> "init"]
        /\ out = NoOut
        /\ stopped = FALSE
        /\ nBuilt = 0

Init == InitWith(Configs)

Next ==
    \/ \E d \in Datagrams : IdleRecv(d)
    \/ \E d \in Datagrams : StreamRecv(d)
    \/ RecvError
    \/ EnterStreaming
    \/ Tick

Spec == Init /\ [][Next]_vars

(***************************************************************************)
(* A second specification: every hardware variant, a discovery-centred     *)
(* set of datagrams                                                        *)
(***************************************************************************)
HwConfigs == {[hw |-> h, mac |-> MacA, echo |-> FALSE] : h \in HpsdrHw}

HwDatagrams ==
    Discoveries \cup Starts \cup Stops
        \cup {Datagram(a, PACKET_SIZE, 239, 254, 1, 2, HostSf(SYNC, WRate, 1), NoSyncSf) : a \in Addrs}

InitHw == InitWith(HwConfigs)

NextHw ==
    \/ \E d \in HwDatagrams : IdleRecv(d)
    \/ \E d \in HwDatagrams : StreamRecv(d)
    \/ RecvError
    \/ EnterStreaming
    \/ Tick

SpecHw == InitHw /\ [][NextHw]_vars

(***************************************************************************)
(* Properties.  Datagram classes are read off the wire bytes, and expected  *)
(* values are written out, independently of the handlers above.             *)
(***************************************************************************)
Received == inp.kind = "recv"

IsDiscoveryReq(d) == d.len >= 4 /\ d.b0 = 239 /\ d.b1 = 254 /\ d.b2 = 2

IsDataType(d) == d.len >= 4 /\ d.b0 = 239 /\ d.b1 = 254 /\ d.b2 = 1

\* bit 0, bit 7 and the address bits (C0 & 0x78) of an outbound C0
Bit0(c0) == c0 % 2

Bit7(c0) == (c0 \div 128) % 2

AddrBits(c0) == ((c0 \div 8) % 16) * 8

\* C1: once a stop datagram (EF FE 04 00) has been processed, in the idle or
\* the streaming state, running is false and no step sends a data packet until
\* a start datagram (EF FE 04 01) is accepted.
C1_StopHaltsStreaming == stopped => (~state.running /\ out.kind # "data")

\* packets were streamed, a stop was processed, and a data datagram was then
\* handled in the idle state
C1_Witness ==
    /\ stopped
    /\ nBuilt >= 1
    /\ Received
    /\ inp.mode = "idle"
    /\ IsDataType(inp.d)
    /\ inp.d.len >= PACKET_SIZE

\* C2: a start or data datagram latches its source address as the client;
\* every data packet is sent by the timer branch, to the address latched at
\* that moment, and so never in answer to a datagram such as a discovery
\* request.
C2_ClientLatch ==
    /\ (Received /\ (IsStart(inp.d) \/ IsDataType(inp.d))) => client_addr = <<inp.d.src>>
    /\ out.kind = "data" => (inp.kind = "tick" /\ client_addr = <<out.dest>>)
    /\ (Received /\ IsDiscoveryReq(inp.d)) => out.kind # "data"

\* a data datagram rebinds the client in the streaming loop after packets
\* were sent
C2_Witness ==
    /\ Received
    /\ inp.mode = "stream"
    /\ IsDataType(inp.d)
    /\ nBuilt >= 1
    /\ client_addr = <<inp.d.src>>

\* the big-endian bytes of the n-th sequence number
SeqBytes(n) == <<(n \div 16777216) % 256, (n \div 65536) % 256, (n \div 256) % 256, n % 256>>

\* C3: the k-th data packet ever built (k = 0, 1, ...) carries sequence number
\* k at offsets [4..8], big-endian: the numbers are contiguous from 0 and the
\* counter is never reset, whatever starts, stops and rebindings lie between.
C3_SeqContiguous ==
    /\ out.kind = "data" => out.packet.seq = SeqBytes(nBuilt - 1)
    /\ nBuilt > 0 => SeqGet(state.seq, "p1_data") = <<0, nBuilt>>

\* the third packet built carries sequence number 2
C3_Witness ==
    /\ out.kind = "data"
    /\ nBuilt = 3
    /\ out.packet.seq = <<0, 0, 0, 2>>

\* the cyclic order of the C0 addresses
AddrCycle == <<0, 8, 16, 24>>

\* C4: the j-th outbound sub-frame ever built (j = 0, 1, ...) carries the C0
\* address AddrCycle[j mod 4]; the two sub-frames of the k-th packet are the
\* sub-frames 2k and 2k + 1, so they carry consecutive addresses.
C4_AddrRotation ==
    out.kind = "data" =>
        /\ AddrBits(out.packet.sf[1].c0) = AddrCycle[((2 * (nBuilt - 1)) % 4) + 1]
        /\ AddrBits(out.packet.sf[2].c0) = AddrCycle[((2 * (nBuilt - 1) + 1) % 4) + 1]

\* the third packet: the rotation has wrapped around to 0x00, 0x08
C4_Witness ==
    /\ out.kind = "data"
    /\ nBuilt = 3
    /\ AddrBits(out.packet.sf[1].c0) = 0
    /\ AddrBits(out.packet.sf[2].c0) = 8

\* C5: every outbound data packet is 1032 bytes with header EF FE 01 06 and
\* two 512-byte sub-frames at offsets 8 and 520; each sub-frame starts with
\* 7F 7F 7F, has bit 7 of C0 set and bit 0 of C0 equal to ptt, and its sample
\* rows end within its 512 bytes.
C5_Framing ==
    out.kind = "data" =>
        /\ out.packet.len = 1032
        /\ out.packet.hdr = <<239, 254, 1, 6>>
        /\ Len(out.packet.sf) = 2
        /\ out.packet.sf[1].off = 8
        /\ out.packet.sf[2].off = out.packet.sf[1].off + 512
        /\ out.packet.len = out.packet.sf[2].off + 512
        /\ \A i \in 1..2 :
              LET sf == out.packet.sf[i]
              IN  /\ sf.sync = <<127, 127, 127>>
                  /\ Bit7(sf.c0) = 1
                  /\ Bit0(sf.c0) = (IF state.ptt THEN 1 ELSE 0)
                  /\ sf.end <= sf.off + 512

\* a packet built while the host asserts MOX
C5_Witness ==
    /\ out.kind = "data"
    /\ state.ptt
    /\ Bit0(out.packet.sf[1].c0) = 1

\* the board codes of the hardware variants
BoardCode ==
    [Atlas |-> 0, Hermes |-> 1, HermesII |-> 2, Angelia |-> 3, Orion |-> 4,
     OrionMkII |-> 5, HermesLite |-> 6, Saturn |-> 10, SaturnMkII |-> 11]

\* C6: a discovery request (EF FE 02, at least 4 bytes), in the idle or the
\* streaming state, is answered to its sender with 60 bytes: [0..2] = EF FE 02,
\* [3..9] = the configured MAC, [10] = the board code of the configured
\* variant, [11] = 0, [20] = the nddc of that moment.
C6_DiscoveryReply ==
    (Received /\ IsDiscoveryReq(inp.d)) =>
        /\ out.kind = "reply"
        /\ out.dest = inp.d.src
        /\ Len(out.bytes) = 60
        /\ SubSeq(out.bytes, 1, 3) = <<239, 254, 2>>
        /\ SubSeq(out.bytes, 4, 9) = MacA
        /\ out.bytes[11] = BoardCode[state.hw]
        /\ out.bytes[12] = 0
        /\ out.bytes[21] = state.nddc

\* a request answered in the streaming loop of an Orion MkII (8 DDCs) after a
\* control word set nddc to 2
C6_Witness ==
    /\ Received
    /\ IsDiscoveryReq(inp.d)
    /\ inp.mode = "stream"
    /\ state.hw = "OrionMkII"
    /\ out.kind = "reply"
    /\ out.bytes[21] = 2

\* C7: handling a discovery request changes no engine state: radio state
\* (with its sequence counter), signal generator, echo buffer, rotation index,
\* latched client, streaming flag and timer are as before.
C7_DiscoveryFrame ==
    [][(inp'.kind = "recv" /\ IsDiscoveryReq(inp'.d)) => UNCHANGED engine]_vars

\* a request handled in the streaming loop while a recording is in progress
C7_Witness ==
    /\ Received
    /\ IsDiscoveryReq(inp.d)
    /\ inp.mode = "stream"
    /\ nBuilt >= 1
    /\ state.ptt
    /\ echo # <<>>
    /\ echo[1].is_recording
    /\ echo[1].recording # <<>>

\* C8: a datagram shorter than 4 bytes or not starting with EF FE, in the idle
\* or the streaming state, changes no engine state and is not answered.
C8_BadHeaderFrame ==
    [][(inp'.kind = "recv" /\ (inp'.d.len < 4 \/ inp'.d.b0 # 239 \/ inp'.d.b1 # 254))
          => (UNCHANGED engine /\ out' = NoOut)]_vars

\* a 3-byte EF FE 02 handled in the streaming loop
C8_Witness ==
    /\ Received
    /\ inp.d.len < 4
    /\ inp.d.b2 = 2
    /\ inp.mode = "stream"
    /\ nBuilt >= 1
    /\ out = NoOut

\* the malformed datagrams with valid magic: a short data packet, a data
\* packet without sync in either sub-frame, an unknown type
Malformed(d) ==
    /\ d.len >= 4 /\ d.b0 = 239 /\ d.b1 = 254
    /\ \/ d.b2 = 1 /\ d.len < 1032
       \/ d.b2 = 1 /\ d.len >= 1032 /\ d.sf[1].sync # <<127, 127, 127>>
                   /\ d.sf[2].sync # <<127, 127, 127>>
       \/ d.b2 \notin {1, 2, 4}

\* C9: a malformed datagram with valid magic is not answered and leaves radio
\* state, echo buffer, latched client address and streaming flag unchanged.
C9_MalformedDropped ==
    [][(inp'.kind = "recv" /\ Malformed(inp'.d))
          => /\ out' = NoOut
             /\ UNCHANGED <<state, echo, client_addr, streaming>>]_vars

\* the MOX bit of the last sub-frame with sync of a data packet, -1 if none
LastMox(d) ==
    IF d.sf[2].sync = <<127, 127, 127>> THEN d.sf[2].c0 % 2
    ELSE IF d.sf[1].sync = <<127, 127, 127>> THEN d.sf[1].c0 % 2
    ELSE -1

\* the telemetry of a sub-frame built while not transmitting
NotTransmitting(sf) ==
    /\ AddrBits(sf.c0) = 8 => <<sf.c1, sf.c2, sf.c3, sf.c4>> = <<0, 0, 0, 0>>
    /\ AddrBits(sf.c0) = 16 => <<sf.c1, sf.c2, sf.c3, sf.c4>> = <<0, 0, 12, 128>>
    /\ AddrBits(sf.c0) = 24 => <<sf.c1, sf.c2, sf.c3, sf.c4>> = <<0, 0, 12, 128>>

\* C10: when a data datagram's handler returns, ptt is the MOX bit of its last
\* control word; every packet built from then on shows that ptt in both of its
\* sub-frames, and while ptt is low C0 bit 0 is 0 and the telemetry is that of
\* a radio that is not transmitting.
C10_PttObserved ==
    /\ (Received /\ IsDataType(inp.d) /\ inp.d.len >= 1032 /\ LastMox(inp.d) # -1)
          => state.ptt = (LastMox(inp.d) = 1)
    /\ out.kind = "data" =>
          \A i \in 1..2 :
              /\ Bit0(out.packet.sf[i].c0) = (IF state.ptt THEN 1 ELSE 0)
              /\ ~state.ptt => NotTransmitting(out.packet.sf[i])

\* a packet carrying the 0x08 telemetry, built with tx_drive 100 after PTT
\* fell: the recording made while PTT was high has been committed
C10_Witness ==
    /\ out.kind = "data"
    /\ ~state.ptt
    /\ state.tx_drive = 100
    /\ AddrBits(out.packet.sf[2].c0) = 8
    /\ echo # <<>>
    /\ DOMAIN echo[1].echoes # {}

\* a data packet in which exactly the first sub-frame has sync: the handler
\* processes one control word
OneWord(d) ==
    /\ IsDataType(d)
    /\ d.len >= 1032
    /\ d.sf[1].sync = <<127, 127, 127>>
    /\ d.sf[2].sync # <<127, 127, 127>>

\* the step just taken handled a one-word data packet with the echo enabled
WordStep == inp'.kind = "recv" /\ OneWord(inp'.d) /\ echo # <<>>

\* the recorder after a word on a rising edge: started on the transmit
\* frequency of that moment, nothing committed, the word's own 63 samples staged
RisingEffect ==
    /\ ~echo[1].is_recording
    /\ echo'[1].is_recording
    /\ echo'[1].recording_freq = state.tx_frequency
    /\ VLen(echo'[1].recording) = 63
    /\ echo'[1].echoes = echo[1].echoes

\* the recorder after a word on a falling edge: stopped, the staging area
\* emptied into the recording at the key of the transmission
FallingEffect ==
    /\ echo[1].is_recording
    /\ ~echo'[1].is_recording
    /\ echo'[1].recording = <<>>
    /\ echo'[1].recording_freq = echo[1].recording_freq
    /\ IF echo[1].recording # <<>> /\ echo[1].recording_freq # 0
       THEN /\ echo[1].recording_freq \in DOMAIN echo'[1].echoes
            /\ \A f \in DOMAIN echo[1].echoes \ {echo[1].recording_freq} :
                  f \in DOMAIN echo'[1].echoes /\ echo'[1].echoes[f] = echo[1].echoes[f]
       ELSE echo'[1].echoes = echo[1].echoes

\* the recorder after a word without an edge: neither started nor stopped
LevelEffect ==
    /\ echo'[1].is_recording = echo[1].is_recording
    /\ echo'[1].recording_freq = echo[1].recording_freq
    /\ echo'[1].echoes = echo[1].echoes
    /\ VLen(echo'[1].recording) =
          VLen(echo[1].recording) + (IF state.ptt THEN 63 ELSE 0)

\* C11: after every datagram handled ptt is the MOX bit of the last control
\* word processed and, with echo enabled, is_recording equals ptt; a control
\* word starts the recorder exactly on a rising edge of MOX (it was not
\* recording), stops it exactly on a falling edge (it was recording), and
\* leaves it neither started nor stopped when MOX keeps its level.
C11_PttDrivesRecorder ==
    /\ [](echo # <<>> => echo[1].is_recording = state.ptt)
    /\ []((Received /\ IsDataType(inp.d) /\ inp.d.len >= 1032 /\ LastMox(inp.d) # -1)
             => state.ptt = (LastMox(inp.d) = 1))
    /\ [][WordStep =>
             LET mox == inp'.d.sf[1].c0 % 2 = 1
             IN  /\ state'.ptt = mox
                 /\ IF ~state.ptt /\ mox THEN RisingEffect
                    ELSE IF state.ptt /\ ~mox THEN FallingEffect
                    ELSE LevelEffect]_vars

\* a key-down word handled while already transmitting: the staging area holds
\* the samples of two sub-frames
C11_Witness ==
    /\ Received
    /\ OneWord(inp.d)
    /\ inp.d.sf[1].c0 % 2 = 1
    /\ echo # <<>>
    /\ echo[1].is_recording
    /\ state.ptt
    /\ VLen(echo[1].recording) = 126

(***************************************************************************)
(* A third specification: one long transmission with the echo enabled.     *)
(* The host may select 192000 Hz, keys down with packets of two sub-frames *)
(* and keys up; the behaviour is followed until that recording is          *)
(* committed, and no second transmission is begun.                        *)
(***************************************************************************)
EchoConfigs == {[hw |-> "Hermes", mac |-> MacA, echo |-> TRUE]}

EchoDatagrams ==
    {Datagram("192.168.1.10:1024", PACKET_SIZE, 239, 254, 1, 2, HostSf(SYNC, WRate, 1), NoSyncSf),
     Datagram("192.168.1.10:1024", PACKET_SIZE, 239, 254, 1, 2,
              HostSf(SYNC, WKeyDown, 1), HostSf(SYNC, WKeyDown, 1)),
     Datagram("192.168.1.10:1024", PACKET_SIZE, 239, 254, 1, 2, HostSf(SYNC, WKeyUp, 1), NoSyncSf)}

\* the staging area stays within the bound, and the recorder is not started
\* again once a recording has been committed
WithinLongFeeds(w) ==
    /\ VLen(w.echo[1].recording) <= MaxLongFeeds * TX_BLOCKS
    /\ ~(w.echo[1].is_recording /\ DOMAIN w.echo[1].echoes # {})

\* a datagram received while not streaming, in the long-recording specification
IdleRecvLong(d) ==
    /\ ~streaming
    /\ LET o == IdleDispatch(Server, client_addr, d)
       IN  WithinLongFeeds(o.w) /\ Deliver(o, "idle", d)

InitEcho == InitWith(EchoConfigs)

NextEcho == \E d \in EchoDatagrams : IdleRecvLong(d)

SpecEcho == InitEcho /\ [][NextEcho]_vars

\* C12: a control word with MOX 0 that ends a transmission begun on the
\* frequency f > 0, with K samples staged, leaves a recording at key f of
\* length min(K, sample_rate * 10), sample_rate being the rate the host has
\* selected.
C12_RecordingLength ==
    [][(WordStep /\ state.ptt /\ ~state'.ptt /\ echo[1].recording_freq > 0)
          => LET f == echo[1].recording_freq
                 K == VLen(echo[1].recording)
             IN  /\ f \in DOMAIN echo'[1].echoes
                 /\ VLen(echo'[1].echoes[f]) = Min(K, state'.sample_rate * 10)]_vars

\* C13: every data packet is paced by the period (2 * spr) / sample_rate of the
\* sample_rate and nddc in force when it is sent, spr = 504 / (6 * nddc + 2):
\* a control word that changed either has taken effect on the timer by the
\* next packet.  Periods are compared as fractions.
C13_PeriodFollowsControl ==
    out.kind = "data" =>
        /\ timer # <<>>
        /\ timer[1].samples_per_packet * state.sample_rate
              = (2 * (504 \div (6 * state.nddc + 2))) * timer[1].sample_rate

(***************************************************************************)
(* A fourth specification: control words.  Every data packet carries one   *)
(* valid sub-frame, so every step is one call of process_control; the host *)
(* does not start the stream and the echo is off.                          *)
(***************************************************************************)
CtlConfigs ==
    {[hw |-> "Atlas", mac |-> MacA, echo |-> FALSE],
     [hw |-> "Saturn", mac |-> MacA, echo |-> FALSE]}

\* C1..C4 of the control words, by address (C0 & 0xFE)
CtlBodies ==
    {<<0, 2, 0, 0, 8>>,          \* 0x00: code 2, nddc 2
     <<0, 1, 0, 0, 56>>,         \* 0x00: code 1, nddc 8
     <<0, 7, 0, 0, 16>>,         \* 0x00: code 7 & 3 = 3, nddc 3
     <<0, 4, 0, 0, 71>>,         \* 0x00: code 4 & 3 = 0, nddc (8 & 7) + 1 = 1
     <<2, 0, 111, 18, 56>>,      \* 0x02: 00 6F 12 38
     <<4, 0, 107, 240, 209>>,    \* 0x04: 00 6B F0 D1
     <<6, 0, 111, 18, 56>>,      \* 0x06: 00 6F 12 38
     <<16, 0, 111, 18, 56>>,     \* 0x10: 00 6F 12 38
     <<18, 255, 1, 2, 3>>,       \* 0x12: drive 255
     <<20, 255, 1, 2, 59>>,      \* 0x14: not handled
     <<126, 3, 0, 0, 56>>,       \* 0x7E: not handled
     <<254, 0, 111, 18, 56>>}    \* 0xFE: not handled

\* each with MOX 0 and MOX 1
CtlWords == {<<b[1] + m, b[2], b[3], b[4], b[5]>> : b \in CtlBodies, m \in {0, 1}}

CtlDatagrams ==
    {Datagram("192.168.1.10:1024", PACKET_SIZE, 239, 254, 1, 2, HostSf(SYNC, c, 1), NoSyncSf) :
        c \in CtlWords}

InitCtl == InitWith(CtlConfigs)

NextCtl == \E d \in CtlDatagrams : IdleRecv(d)

SpecCtl == InitCtl /\ [][NextCtl]_vars

\* the control word of a one-word data packet, and its parts
WordOf(d) == <<d.sf[1].c0, d.sf[1].c1, d.sf[1].c2, d.sf[1].c3, d.sf[1].c4>>

WordAddr(c) == c[1] - (c[1] % 2)

WordMox(c) == c[1] % 2 = 1

\* C1..C4 as a big-endian number
WordValue(c) == c[2] * 16777216 + c[3] * 65536 + c[4] * 256 + c[5]

\* the last datagram handled carried exactly the control word c
HandledWord(c) == Received /\ OneWord(inp.d) /\ WordOf(inp.d) = c

\* C14: after a control word with address 0x02 and C1..C4 = 00 6F 12 38,
\* tx_frequency is 0x006F1238 = 7_279_160; after one with address 0x06 and
\* the same bytes, rx_frequencies[1] is 7_279_160.
C14_FrequencyDecoded ==
    /\ \A m \in {0, 1} : HandledWord(<<2 + m, 0, 111, 18, 56>>) => state.tx_frequency = 7279160
    /\ \A m \in {0, 1} : HandledWord(<<6 + m, 0, 111, 18, 56>>) => state.rx_frequencies[1] = 7279160

\* the 0x06 word handled after a 0x02 word: both frequencies are set
C14_Witness ==
    /\ HandledWord(<<6, 0, 111, 18, 56>>)
    /\ state.rx_frequencies[1] = 7279160
    /\ state.tx_frequency = 7279160
    /\ state.rx_frequencies[0] = 7074000

\* C14 as stated: the frequencies are 7_279_416
C14_AsStated ==
    /\ \A m \in {0, 1} : HandledWord(<<2 + m, 0, 111, 18, 56>>) => state.tx_frequency = 7279416
    /\ \A m \in {0, 1} : HandledWord(<<6 + m, 0, 111, 18, 56>>) => state.rx_frequencies[1] = 7279416

\* the DDC counts of the hardware variants
MaxDdcs ==
    [Atlas |-> 2, Hermes |-> 4, HermesII |-> 4, Angelia |-> 5, Orion |-> 5,
     OrionMkII |-> 8, HermesLite |-> 2, Saturn |-> 10, SaturnMkII |-> 10]

\* C15: nddc is at least 1; it is the DDC count of the variant until a control
\* word with address 0x00 is processed, and ((C4 >> 3) & 7) + 1, a value of
\* 1..8 that is not clamped to the variant's DDC count, after one.
C15_NddcRange ==
    /\ state.nddc >= 1
    /\ state.nddc <= 8 \/ state.nddc = MaxDdcs[state.hw]
    /\ (Received /\ OneWord(inp.d) /\ WordAddr(WordOf(inp.d)) = 0)
          => state.nddc = ((inp.d.sf[1].c4 \div 8) % 8) + 1

\* an Atlas (2 DDCs) after the word 00 01 00 00 38: nddc is 8
C15_Witness ==
    /\ state.hw = "Atlas"
    /\ HandledWord(<<0, 1, 0, 0, 56>>)
    /\ state.nddc = 8

\* C15 as stated: nddc stays within the DDC count of the variant
C15_NddcWithinHardware == state.nddc >= 1 /\ state.nddc <= MaxDdcs[state.hw]

\* the addresses process_control handles
HandledAddrs == {0, 2, 4, 6, 8, 10, 12, 14, 16, 18}

\* the step just taken processed one control word
CtlStep == inp'.kind = "recv" /\ OneWord(inp'.d)

\* C16: a control word whose address is outside the handled set changes no
\* field of the radio state but ptt, which takes the word's MOX bit.
C16_UnknownAddrIgnored ==
    [][(CtlStep /\ WordAddr(WordOf(inp'.d)) \notin HandledAddrs)
          => state' = [state EXCEPT !.ptt = WordMox(WordOf(inp'.d))]]_vars

\* the word 15 FF 01 02 3B (address 0x14, MOX 1) handled after drive and
\* nddc were set
C16_Witness ==
    /\ HandledWord(<<21, 255, 1, 2, 59>>)
    /\ state.ptt
    /\ state.tx_drive = 255
    /\ state.nddc = 8

\* C16 as stated: the radio state is identical after such a word
C16_StateIdentical ==
    [][(CtlStep /\ WordAddr(WordOf(inp'.d)) \notin HandledAddrs) => state' = state]_vars

\* the sample rates of Protocol 1, by code
RateOfCode == <<48000, 96000, 192000, 384000>>

\* the radio state a control word c leaves behind, from the state s before
ExpectedAfter(s, c) ==
    LET a == WordAddr(c)
        keyed == [s EXCEPT !.ptt = WordMox(c)]
    IN  IF a = 0
        THEN [keyed EXCEPT !.sample_rate = RateOfCode[(c[2] % 4) + 1],
                           !.nddc = ((c[5] \div 8) % 8) + 1]
        ELSE IF a = 2 THEN [keyed EXCEPT !.tx_frequency = WordValue(c)]
        ELSE IF a \in {4, 6, 8, 10, 12, 14, 16}
        THEN [keyed EXCEPT !.rx_frequencies[(a - 4) \div 2] = WordValue(c)]
        ELSE IF a = 18 THEN [keyed EXCEPT !.tx_drive = c[2]]
        ELSE keyed

\* C19: a control word changes the field its address selects and, through
\* the MOX bit, ptt, and nothing else of the radio state (so neither running
\* nor the sequence counter); the rotation index and the streaming flag are
\* unchanged, the latched client is unchanged when the word comes from it,
\* and sample_rate stays one of 48000, 96000, 192000, 384000.
C19_ControlFrame ==
    /\ [](state.sample_rate \in {48000, 96000, 192000, 384000})
    /\ [][CtlStep =>
             /\ state' = ExpectedAfter(state, WordOf(inp'.d))
             /\ UNCHANGED <<control_idx, streaming>>
             /\ client_addr = <<inp'.d.src>> => UNCHANGED client_addr]_vars

\* the word 10 00 6F 12 38 (address 0x10) has set rx_frequencies[6] and no
\* other index, after the rate was set to 384000
C19_Witness ==
    /\ HandledWord(<<16, 0, 111, 18, 56>>)
    /\ state.rx_frequencies[6] = 7279160
    /\ \A i \in 0..11 : i # 6 => state.rx_frequencies[i] = 7074000
    /\ state.sample_rate = 384000
    /\ state.tx_drive = 255

(***************************************************************************)
(* A fifth specification: telemetry.  A Hermes without echo is started and *)
(* the host sets every drive level 0..255, with MOX 0 and MOX 1, between    *)
(* the packets.                                                             *)
(***************************************************************************)
TelConfigs == {[hw |-> "Hermes", mac |-> MacA, echo |-> FALSE]}

TelStarts == {Short("192.168.1.10:1024", 4, 239, 254, 4, 1)}

\* address 0x12 with C1 = drive
TelData ==
    {Datagram("192.168.1.10:1024", PACKET_SIZE, 239, 254, 1, 2,
              HostSf(SYNC, <<18 + m, d, 0, 0, 0>>, 1), NoSyncSf) :
        d \in 0..255, m \in {0, 1}}

InitTel == InitWith(TelConfigs)

NextTel ==
    \/ \E d \in TelStarts : IdleRecv(d)
    \/ \E d \in TelData : StreamRecv(d)
    \/ EnterStreaming
    \/ Tick

SpecTel == InitTel /\ [][NextTel]_vars

\* the big-endian u16 in C1..C2 and in C3..C4 of an outbound sub-frame
TelC12(sf) == sf.c1 * 256 + sf.c2

TelC34(sf) == sf.c3 * 256 + sf.c4

\* C17: the telemetry of every outbound sub-frame, for every tx_drive of
\* 0..255, equals the specified value computed without any wrap at 16 bits:
\* 0x08: drive * 10 and drive^2 >> 4 when ptt (1000 and 625 for drive 100),
\* else 0 and 0; 0x10: max(1, (drive^2 >> 4) / 50) when ptt else 0, and 3200;
\* 0x18: drive * 5 when ptt else 0, and 3200; 0x00: 0, firmware_version,
\* penny_version, 0.
C17_Telemetry ==
    out.kind = "data" =>
        \A i \in 1..2 :
            LET sf == out.packet.sf[i]
                a == AddrBits(sf.c0)
                d == state.tx_drive
                p == state.ptt
            IN  /\ d \in 0..255
                /\ {sf.c1, sf.c2, sf.c3, sf.c4} \subseteq 0..255
                /\ a = 0 =>
                      <<sf.c1, sf.c2, sf.c3, sf.c4>>
                         = <<0, state.firmware_version, state.penny_version, 0>>
                /\ a = 8 =>
                      /\ TelC12(sf) = (IF p THEN d * 10 ELSE 0)
                      /\ TelC34(sf) = (IF p THEN (d * d) \div 16 ELSE 0)
                      /\ (p /\ d = 100) => (TelC12(sf) = 1000 /\ TelC34(sf) = 625)
                /\ a = 16 =>
                      /\ TelC12(sf) = (IF p THEN (IF ((d * d) \div 16) \div 50 >= 1
                                                 THEN ((d * d) \div 16) \div 50 ELSE 1)
                                       ELSE 0)
                      /\ TelC34(sf) = 3200
                /\ a = 24 =>
                      /\ TelC12(sf) = (IF p THEN d * 5 ELSE 0)
                      /\ TelC34(sf) = 3200

\* the first packet built at drive 255 while transmitting: forward power
\* 65025 >> 4 = 4064 at address 0x08
C17_Witness ==
    /\ out.kind = "data"
    /\ state.ptt
    /\ state.tx_drive = 255
    /\ AddrBits(out.packet.sf[2].c0) = 8
    /\ TelC12(out.packet.sf[2]) = 2550
    /\ TelC34(out.packet.sf[2]) = 4064

(***************************************************************************)
(* A sixth specification: liveness.  A Hermes without echo; send_to may    *)
(* fail.  select! polls its ready branches in random order and the         *)
(* interval timer becomes ready every period, so inbound traffic cannot    *)
(* starve the timer branch for ever: weak fairness of Tick.  The outer     *)
(* loop falls through to the streaming branch as soon as the flag is set:  *)
(* weak fairness of EnterStreaming.                                        *)
(***************************************************************************)
LiveConfigs == {[hw |-> "Hermes", mac |-> MacA, echo |-> FALSE]}

\* the packet that send_to failed to send (lines 353-355: logged, nothing else)
SendFailed(dest, packet) == [kind |-> "send_err", dest |-> dest, packet |-> packet]

\* the timer branch when send_to returns Err
TickSendError ==
    /\ streaming
    /\ timer # <<>>
    /\ state.running
    /\ client_addr # <<>>
    /\ nBuilt < MaxPackets
    /\ LET b == build_data_packet(Server)
       IN  /\ SetServer(b.w)
           /\ out' = SendFailed(client_addr[1], b.packet)
    /\ inp' = [kind |-> "tick"]
    /\ nBuilt' = nBuilt + 1
    /\ UNCHANGED <<client_addr, streaming, timer, stopped>>

InitLive == InitWith(LiveConfigs)

NextLive ==
    \/ \E d \in HwDatagrams : IdleRecv(d)
    \/ \E d \in HwDatagrams : StreamRecv(d)
    \/ RecvError
    \/ EnterStreaming
    \/ Tick
    \/ TickSendError

SpecLive ==
    InitLive /\ [][NextLive]_vars /\ WF_vars(EnterStreaming) /\ WF_vars(Tick)

\* the step just taken built a data packet and handed it to send_to for the
\* latched client
PacketOut == out.kind \in {"data", "send_err"} /\ client_addr = <<out.dest>>

\* C18: whenever a start has been accepted and not been followed by a stop
\* (running), and the bound on packets is not exhausted, eventually a stop
\* datagram is processed or a step hands a data packet to send_to for the
\* latched client; since that holds again after every such step, packets
\* keep being sent.  A receive error or a send error leaves the streaming
\* flag, the timer, running and the latched client as they were.
C18_StreamingLive ==
    /\ (state.running /\ nBuilt < MaxPackets /\ ~PacketOut) ~> (stopped \/ PacketOut)
    /\ [][(inp'.kind = "recv_err" \/ out'.kind = "send_err")
             => /\ UNCHANGED <<streaming, client_addr, timer>>
                /\ state'.running = state.running]_vars

\* the last packet within the bound is sent to the client: no stop was
\* processed since the start
C18_Witness ==
    /\ out.kind = "data"
    /\ nBuilt = MaxPackets
    /\ state.running
    /\ streaming
    /\ ~stopped

\* ptt after an inbound sub-frame, from ptt before it
PttAfter(ptt, sf) == IF sf.sync = <<127, 127, 127>> THEN sf.c0 % 2 = 1 ELSE ptt

\* the number of samples in the staging area after an inbound sub-frame, from
\* the number n and ptt before it: 63 more iff the sub-frame has sync and its
\* own control word asserts MOX; a falling edge empties the staging area
StagedAfter(n, ptt, sf) ==
    IF sf.sync # <<127, 127, 127>> THEN n
    ELSE IF sf.c0 % 2 = 1 THEN n + 63
    ELSE IF ptt THEN 0
    ELSE n

\* C20: with echo enabled, each inbound sub-frame with valid sync appends
\* exactly 63 samples to the staging area if and only if ptt is asserted after
\* its own control word: the sub-frame of a rising edge is recorded, that of a
\* falling edge is not, and the staging area always holds 63 samples per valid
\* sub-frame received with MOX 1 in the transmission.  Without an echo buffer
\* nothing is staged, and no other step touches the staging area.
C20_TxStaging ==
    /\ [](echo # <<>> => /\ VLen(echo[1].recording) % 63 = 0
                         /\ ~state.ptt => echo[1].recording = <<>>)
    /\ [][/\ echo = <<>> => echo' = <<>>
          /\ echo # <<>> =>
                /\ echo' # <<>>
                /\ VLen(echo'[1].recording) =
                      IF inp'.kind = "recv" /\ IsDataType(inp'.d) /\ inp'.d.len >= 1032
                      THEN StagedAfter(StagedAfter(VLen(echo[1].recording), state.ptt,
                                                   inp'.d.sf[1]),
                                       PttAfter(state.ptt, inp'.d.sf[1]), inp'.d.sf[2])
                      ELSE VLen(echo[1].recording)]_vars

\* one data packet with MOX 1 in its first sub-frame and MOX 0 in its second:
\* the recording committed has the 63 samples of the first
C20_Witness ==
    /\ Received
    /\ IsDataType(inp.d)
    /\ inp.d.len >= 1032
    /\ inp.d.sf[1].sync = <<127, 127, 127>> /\ inp.d.sf[1].c0 % 2 = 1
    /\ inp.d.sf[2].sync = <<127, 127, 127>> /\ inp.d.sf[2].c0 % 2 = 0
    /\ echo # <<>>
    /\ echo[1].recording = <<>>
    /\ DOMAIN echo[1].echoes = {7074000}
    /\ VLen(echo[1].echoes[7074000]) = 63

(***************************************************************************)
(* A seventh specification: transmit frequency and keying.  A Hermes with  *)
(* the echo enabled is idle; the host sends data packets whose sub-frames  *)
(* key down and up, with and without a new transmit frequency, in every    *)
(* pairing.                                                                *)
(***************************************************************************)
KeyConfigs == {[hw |-> "Hermes", mac |-> MacA, echo |-> TRUE]}

WTxDown == <<3, 0, 111, 18, 56>>      \* MOX 1, addr 0x02: tx_frequency 7279160

WTxUp == <<2, 0, 111, 18, 56>>        \* MOX 0, addr 0x02: tx_frequency 7279160

WTxZero == <<2, 0, 0, 0, 0>>          \* MOX 0, addr 0x02: tx_frequency 0

KeyWords == {WKeyDown, WKeyUp, WTxDown, WTxUp, WTxZero, WRate}

KeySfs == {NoSyncSf} \cup {HostSf(SYNC, c, 1) : c \in KeyWords}

KeyDatagrams ==
    {Datagram("192.168.1.10:1024", PACKET_SIZE, 239, 254, 1, 2, x, y) :
        x \in KeySfs, y \in KeySfs}

InitKey == InitWith(KeyConfigs)

NextKey == \E d \in KeyDatagrams : IdleRecv(d)

SpecKey == InitKey /\ [][NextKey]_vars

\* the step just taken handled a whole data packet with the echo enabled
DataStep == inp'.kind = "recv" /\ IsDataType(inp'.d) /\ inp'.d.len >= 1032 /\ echo # <<>>

\* tx_frequency after an inbound sub-frame, from tx_frequency before it
TxAfter(txf, sf) ==
    IF sf.sync = <<127, 127, 127>> /\ sf.c0 - (sf.c0 % 2) = 2
    THEN sf.c1 * 16777216 + sf.c2 * 65536 + sf.c3 * 256 + sf.c4
    ELSE txf

\* the key of the recorder after an inbound sub-frame, from the key, ptt and
\* tx_frequency before it: a rising edge takes the tx_frequency held before
\* the sub-frame, anything else keeps the key
KeyAfter(key, ptt, txf, sf) ==
    IF sf.sync = <<127, 127, 127>> /\ sf.c0 % 2 = 1 /\ ~ptt THEN txf ELSE key

\* C21: the key of a recording is the tx_frequency held before the control
\* word with the rising MOX bit is applied, also when that word itself has
\* address 0x02 and a new frequency; while PTT stays asserted the key does not
\* change, whatever tx_frequency becomes; and the word of the falling edge
\* commits the staged samples under that key and touches no other recording.
C21_KeyAtPttRise ==
    /\ [][DataStep =>
             LET a == inp'.d.sf[1]
                 b == inp'.d.sf[2]
             IN  /\ state'.tx_frequency = TxAfter(TxAfter(state.tx_frequency, a), b)
                 /\ echo'[1].recording_freq =
                       KeyAfter(KeyAfter(echo[1].recording_freq, state.ptt,
                                         state.tx_frequency, a),
                                PttAfter(state.ptt, a), TxAfter(state.tx_frequency, a), b)]_vars
    /\ [][(DataStep /\ state.ptt /\ PttAfter(state.ptt, inp'.d.sf[1]) /\ state'.ptt)
             => /\ echo'[1].recording_freq = echo[1].recording_freq
                /\ echo'[1].echoes = echo[1].echoes
                /\ echo'[1].is_recording]_vars
    /\ [][(WordStep /\ state.ptt /\ ~state'.ptt)
             => LET key == echo[1].recording_freq
                IN  IF key = 0 THEN echo'[1].echoes = echo[1].echoes
                    ELSE /\ DOMAIN echo'[1].echoes = DOMAIN echo[1].echoes \cup {key}
                         /\ echo'[1].echoes[key] = echo[1].recording
                         /\ \A f \in DOMAIN echo[1].echoes \ {key} :
                               echo'[1].echoes[f] = echo[1].echoes[f]]_vars

\* one packet whose first sub-frame keys down with address 0x02 and the new
\* frequency 7279160 and whose second keys up: its 63 samples are the only
\* recording, committed at the frequency held before, 7074000
C21_Witness ==
    /\ Received
    /\ IsDataType(inp.d)
    /\ inp.d.len >= 1032
    /\ inp.d.sf[1] = HostSf(<<127, 127, 127>>, <<3, 0, 111, 18, 56>>, 1)
    /\ inp.d.sf[2] = HostSf(<<127, 127, 127>>, <<18, 100, 0, 0, 0>>, 1)
    /\ state.tx_frequency = 7279160
    /\ echo[1].recording_freq = 7074000
    /\ DOMAIN echo[1].echoes = {7074000}
    /\ VLen(echo[1].echoes[7074000]) = 63

\* the radio state after an inbound sub-frame, from the state s before it
SfState(s, sf) ==
    IF sf.sync = <<127, 127, 127>>
    THEN ExpectedAfter(s, <<sf.c0, sf.c1, sf.c2, sf.c3, sf.c4>>)
    ELSE s

\* the echo buffer after an inbound sub-frame, from the buffer e and the radio
\* state s before it: a rising edge starts a recording with the sub-frame's own
\* 63 samples, a sub-frame with MOX 1 and no edge adds its 63 samples, a
\* falling edge commits what is staged and records nothing
SfEcho(e, s, sf) ==
    LET mox == sf.c0 % 2 = 1
        key == e.recording_freq
    IN  IF sf.sync # <<127, 127, 127>> THEN e
        ELSE IF mox /\ ~s.ptt
        THEN [e EXCEPT !.recording = VRun(sf.tone, 63),
                       !.recording_freq = s.tx_frequency,
                       !.is_recording = TRUE]
        ELSE IF mox
        THEN [e EXCEPT !.recording = VExtend(e.recording, VRun(sf.tone, 63))]
        ELSE IF s.ptt
        THEN [e EXCEPT !.recording = <<>>,
                       !.is_recording = FALSE,
                       !.echoes = IF key = 0 THEN e.echoes
                                  ELSE MapPut(e.echoes, key, e.recording),
                       !.playback_pos = IF key = 0 THEN e.playback_pos
                                        ELSE MapPut(e.playback_pos, key, 0)]
        ELSE e

\* C23: a data packet leaves the radio state and the echo buffer that its
\* sub-frame at offset 8, wholly processed (control word, then TX samples),
\* followed by its sub-frame at offset 520 leave; a sub-frame without the sync
\* 7F 7F 7F changes nothing and feeds nothing, and the other sub-frame is
\* processed all the same.
C23_SubframesInOrder ==
    [][DataStep =>
          LET a == inp'.d.sf[1]
              b == inp'.d.sf[2]
          IN  /\ state' = SfState(SfState(state, a), b)
              /\ echo' = <<SfEcho(SfEcho(echo[1], state, a), SfState(state, a), b)>>
              /\ siggen'.sample_rate = state'.sample_rate
              /\ UNCHANGED control_idx
              /\ (a.sync # <<127, 127, 127>> /\ b.sync # <<127, 127, 127>>)
                    => UNCHANGED <<state, siggen, echo>>
              /\ (a.sync # <<127, 127, 127>> /\ b.sync = <<127, 127, 127>>)
                    => /\ state' = SfState(state, b)
                       /\ echo' = <<SfEcho(echo[1], state, b)>>
              /\ (a.sync = <<127, 127, 127>> /\ b.sync # <<127, 127, 127>>)
                    => /\ state' = SfState(state, a)
                       /\ echo' = <<SfEcho(echo[1], state, a)>>]_vars

\* one packet whose first sub-frame keys down and sets tx_frequency 7279160
\* and whose second keys up and sets tx_frequency 0: the second had the last
\* word on tx_frequency, and the recording of the first was committed
C23_Witness ==
    /\ Received
    /\ IsDataType(inp.d)
    /\ inp.d.len >= 1032
    /\ inp.d.sf[1] = HostSf(<<127, 127, 127>>, <<3, 0, 111, 18, 56>>, 1)
    /\ inp.d.sf[2] = HostSf(<<127, 127, 127>>, <<2, 0, 0, 0, 0>>, 1)
    /\ state.tx_frequency = 0
    /\ ~state.ptt
    /\ echo[1].recording = <<>>
    /\ 7074000 \in DOMAIN echo[1].echoes

(***************************************************************************)
(* An eighth specification: stop/start cycles.  With and without the echo  *)
(* buffer, two hosts start and stop the stream and send data packets that   *)
(* key, set the transmit frequency and set the rate, idle and streaming.    *)
(***************************************************************************)
CycleConfigs ==
    {[hw |-> "Hermes", mac |-> MacA, echo |-> TRUE],
     [hw |-> "Atlas", mac |-> MacB, echo |-> FALSE]}

CycleData ==
    {Datagram("192.168.1.10:1024", PACKET_SIZE, 239, 254, 1, 2, HostSf(SYNC, c, 1), NoSyncSf) :
        c \in {WKeyDown, WKeyUp, WTxUp, WRate}}
      \cup {Datagram("192.168.1.20:50000", PACKET_SIZE, 239, 254, 1, 2,
                     HostSf(SYNC, WTxDown, 1), HostSf(SYNC, WKeyUp, 1))}

CycleDatagrams ==
    Starts \cup Stops \cup {Short("192.168.1.10:1024", 63, 239, 254, 2, 0)} \cup CycleData

InitCycle == InitWith(CycleConfigs)

NextCycle ==
    \/ \E d \in CycleDatagrams : IdleRecv(d)
    \/ \E d \in CycleDatagrams : StreamRecv(d)
    \/ RecvError
    \/ EnterStreaming
    \/ Tick

SpecCycle == InitCycle /\ [][NextCycle]_vars

\* C27: a data packet changes the radio state and the echo buffer by its two
\* sub-frames and latches its sender, the same whether the engine is idle
\* (also before any start) or streaming; a start sets running, the streaming
\* flag and the client address and a stop clears running and the streaming
\* flag, and neither changes anything else: ptt, the recording in progress,
\* the frequencies, the sequence counter and the rotation index are kept.
C27_ModeIndependent ==
    /\ [][(inp'.kind = "recv" /\ IsDataType(inp'.d) /\ inp'.d.len >= 1032)
             => LET a == inp'.d.sf[1]
                    b == inp'.d.sf[2]
                IN  /\ state' = SfState(SfState(state, a), b)
                    /\ echo' = IF echo = <<>> THEN <<>>
                               ELSE <<SfEcho(SfEcho(echo[1], state, a), SfState(state, a), b)>>
                    /\ client_addr' = <<inp'.d.src>>
                    /\ UNCHANGED <<control_idx, streaming>>]_vars
    /\ [][(inp'.kind = "recv" /\ IsStart(inp'.d))
             => /\ state' = [state EXCEPT !.running = TRUE]
                /\ streaming'
                /\ client_addr' = <<inp'.d.src>>
                /\ UNCHANGED <<siggen, echo, control_idx>>]_vars
    /\ [][(inp'.kind = "recv" /\ IsStop(inp'.d))
             => /\ state' = [state EXCEPT !.running = FALSE]
                /\ ~streaming'
                /\ UNCHANGED <<siggen, echo, control_idx, client_addr>>]_vars

\* a start received idle after an earlier stream of one packet:
\* PTT is still asserted, the recording begun on 7279160 still holds the
\* samples of one sub-frame, and the sequence counter and the rotation index
\* stand where the earlier stream left them
C27_Witness ==
    /\ Received
    /\ IsStart(inp.d)
    /\ inp.mode = "idle"
    /\ nBuilt = 1
    /\ state.ptt
    /\ state.tx_frequency = 7279160
    /\ echo # <<>>
    /\ echo[1].is_recording
    /\ echo[1].recording_freq = 7279160
    /\ VLen(echo[1].recording) = 63
    /\ SeqGet(state.seq, "p1_data") = U32Of(1)
    /\ control_idx = 2

(***************************************************************************)
(* A ninth specification: the echo buffer taken alone.  Its four public    *)
(* methods are called in any order on the buffer main builds: recordings   *)
(* on 0, 7074000 and 7100000 Hz, fed 0, 63 or 480000 samples at a time,    *)
(* and played back as fill_subframe does for one DDC.                      *)
(***************************************************************************)
\* start_recording's tx_freq
BufFreqs == {0, 7074000, 7100000}

\* the lengths of the slices fed
BufFeeds == {0, 63, 480000}

\* generate_echo's n_samples, rx_freq, sample_rate: 63 rows at 48000 Hz, 36
\* rows (two DDCs) at 192000 Hz
BufPlays == {<<63, 7074000, 48000>>, <<36, 7074000, 192000>>, <<36, 7090000, 192000>>}

Called(op, arg) ==
    /\ inp' = [kind |-> "call", op |-> op, arg |-> arg]
    /\ out' = NoOut
    /\ UNCHANGED <<state, siggen, control_idx, client_addr, streaming, timer, stopped, nBuilt>>

BufStart(f) ==
    /\ echo' = <<start_recording(echo[1], f)>>
    /\ Called("start_recording", <<f>>)

BufFeed(n) ==
    /\ VLen(echo[1].recording) <= MaxStaged * TX_BLOCKS
    /\ echo' = <<feed(echo[1], VRun(1, n))>>
    /\ Called("feed", <<n>>)

BufStop ==
    /\ echo' = <<stop_recording(echo[1])>>
    /\ Called("stop_recording", <<>>)

WithinPlay(e) ==
    /\ \A f \in DOMAIN e.playback_pos : e.playback_pos[f] <= MaxPlayed * 63
    /\ \A f \in DOMAIN e.shift_phase : Abs(e.shift_phase[f]) <= MaxPhase * 1000000

BufEcho(p) ==
    /\ WithinPlay(echo[1])
    /\ echo' = <<generate_echo(echo[1], p[1], p[2], p[3])>>
    /\ Called("generate_echo", p)

InitBuf == InitWith(KeyConfigs)

NextBuf ==
    \/ \E f \in BufFreqs : BufStart(f)
    \/ \E n \in BufFeeds : BufFeed(n)
    \/ BufStop
    \/ \E p \in BufPlays : BufEcho(p)

SpecBuf == InitBuf /\ [][NextBuf]_vars

\* the step just taken was a call of the method op
CallOf(op) == inp'.kind = "call" /\ inp'.op = op

\* what a commit does to the recordings, positions and phases
Committed ==
    LET e == echo[1]
        key == e.recording_freq
    IN  /\ echo'[1].recording = <<>>
        /\ echo'[1].shift_phase = e.shift_phase
        /\ IF key = 0 \/ e.recording = <<>>
           THEN /\ echo'[1].echoes = e.echoes
                /\ echo'[1].playback_pos = e.playback_pos
           ELSE /\ DOMAIN echo'[1].echoes = DOMAIN e.echoes \cup {key}
                /\ VLen(echo'[1].echoes[key]) =
                      Min(VLen(e.recording), e.sample_rate * e.max_duration)
                /\ \A f \in DOMAIN e.echoes \ {key} : echo'[1].echoes[f] = e.echoes[f]
                /\ DOMAIN echo'[1].playback_pos = DOMAIN e.playback_pos \cup {key}
                /\ echo'[1].playback_pos[key] = 0
                /\ \A f \in DOMAIN e.playback_pos \ {key} :
                      echo'[1].playback_pos[f] = e.playback_pos[f]

\* C22: a commit (by stop_recording, or by start_recording while recording)
\* with recording frequency 0 or nothing staged stores nothing and leaves
\* every recording and playback position as it was; otherwise the first
\* min(len, sample_rate * max_duration) staged samples become the recording
\* at that key, its playback position becomes 0, its shift phase is kept and
\* the other keys are untouched.  After stop_recording the buffer is not
\* recording, and feed appends nothing while it is not recording.
C22_CommitSemantics ==
    /\ [][CallOf("stop_recording") =>
             /\ ~echo'[1].is_recording
             /\ echo'[1].recording_freq = echo[1].recording_freq
             /\ IF echo[1].is_recording THEN Committed ELSE echo' = echo]_vars
    /\ [][CallOf("start_recording") =>
             /\ echo'[1].is_recording
             /\ echo'[1].recording_freq = inp'.arg[1]
             /\ IF echo[1].is_recording THEN Committed
                ELSE /\ echo'[1].recording = <<>>
                     /\ echo'[1].echoes = echo[1].echoes
                     /\ echo'[1].playback_pos = echo[1].playback_pos
                     /\ echo'[1].shift_phase = echo[1].shift_phase]_vars
    /\ [][CallOf("feed") =>
             IF echo[1].is_recording
             THEN /\ VLen(echo'[1].recording) = VLen(echo[1].recording) + inp'.arg[1]
                  /\ [echo'[1] EXCEPT !.recording = <<>>] = [echo[1] EXCEPT !.recording = <<>>]
             ELSE echo' = echo]_vars

\* stop_recording has committed 480063 staged samples at 7074000 over an older
\* recording that had been played with a frequency offset: 480000 samples are
\* stored, the position is 0, the shift phase is still that of the playback,
\* and the recording at 7100000 keeps its samples and its position
C22_Witness ==
    /\ inp.kind = "call"
    /\ inp.op = "stop_recording"
    /\ ~echo[1].is_recording
    /\ DOMAIN echo[1].echoes = {7074000, 7100000}
    /\ VLen(echo[1].echoes[7074000]) = 480000
    /\ echo[1].playback_pos[7074000] = 0
    /\ 7074000 \in DOMAIN echo[1].shift_phase
    /\ echo[1].shift_phase[7074000] # 0
    /\ VLen(echo[1].echoes[7100000]) = 63
    /\ echo[1].playback_pos[7100000] = 36

\* C25: every stored recording has between 1 and sample_rate * max_duration
\* samples and a playback position p with 0 <= p < its length; generate_echo
\* with n samples moves the position of each recording within half the sample
\* rate of rx_freq to (p + n) mod length and leaves the others' positions and
\* every recording as they were.
C25_PlaybackInRange ==
    /\ [](\A f \in DOMAIN echo[1].echoes :
             /\ VLen(echo[1].echoes[f]) >= 1
             /\ VLen(echo[1].echoes[f]) <= echo[1].sample_rate * echo[1].max_duration
             /\ f \in DOMAIN echo[1].playback_pos
             /\ echo[1].playback_pos[f] >= 0
             /\ echo[1].playback_pos[f] < VLen(echo[1].echoes[f]))
    /\ [][CallOf("generate_echo") =>
             LET n == inp'.arg[1]
                 rx == inp'.arg[2]
                 sr == inp'.arg[3]
             IN  /\ echo'[1].echoes = echo[1].echoes
                 /\ DOMAIN echo'[1].playback_pos = DOMAIN echo[1].playback_pos
                 /\ \A f \in DOMAIN echo[1].echoes :
                       echo'[1].playback_pos[f] =
                          IF 2 * (IF rx >= f THEN rx - f ELSE f - rx) <= sr
                          THEN (echo[1].playback_pos[f] + n) % VLen(echo[1].echoes[f])
                          ELSE echo[1].playback_pos[f]]_vars

\* generate_echo(63, 7074000, 48000) after both recordings were at 36: the one
\* at 7074000, 63 samples long, has gone once round to 36 again, the one at
\* 7100000, 126 samples long, is out of band and stays at 36
C25_Witness ==
    /\ inp.kind = "call"
    /\ inp.op = "generate_echo"
    /\ inp.arg = <<63, 7074000, 48000>>
    /\ DOMAIN echo[1].echoes = {7074000, 7100000}
    /\ VLen(echo[1].echoes[7074000]) = 63
    /\ VLen(echo[1].echoes[7100000]) = 126
    /\ echo[1].playback_pos[7074000] = 36
    /\ echo[1].playback_pos[7100000] = 36

(***************************************************************************)
(* A tenth specification: sample rows.  Every hardware variant is started  *)
(* with its own number of DDCs, and the host sets 1 to 8 DDCs between the   *)
(* packets.                                                                 *)
(***************************************************************************)
\* MOX 0, addr 0x00, rate code 0, C4 bits 3..5 = n - 1
RowWords == {<<0, 0, 0, 0, (n - 1) * 8>> : n \in 1..8}

RowDatagrams ==
    {Short("192.168.1.10:1024", 4, 239, 254, 4, 1)}
      \cup {Datagram("192.168.1.10:1024", PACKET_SIZE, 239, 254, 1, 2, HostSf(SYNC, c, 1), NoSyncSf) :
               c \in RowWords}

InitRows == InitWith(HwConfigs)

NextRows ==
    \/ \E d \in RowDatagrams : IdleRecv(d)
    \/ \E d \in RowDatagrams : StreamRecv(d)
    \/ EnterStreaming
    \/ Tick

SpecRows == InitRows /\ [][NextRows]_vars

\* what the byte at index i of the buffer holds after the writes of p: the last
\* write that covers it, or "zero" of vec![0u8; PACKET_SIZE] if none does
ByteAt(p, i) ==
    LET hits == {k \in 1..Len(p.writes) :
                    p.writes[k].at <= i /\ i < p.writes[k].at + p.writes[k].n}
    IN  IF hits = {} THEN "zero"
        ELSE p.writes[CHOOSE k \in hits : \A m \in hits : m <= k].what

\* C24: nddc is one of 1..10, so rx_frequencies[..nddc] lies within its 12
\* entries; each sub-frame of a packet holds spr = 504 \div (6 * nddc + 2) >= 1
\* rows of 6 * nddc + 2 bytes from offset 8 of the sub-frame on; no byte at or
\* beyond offset 512 of the sub-frame is written; in every row the 6 * nddc
\* sample bytes are followed by two mic bytes 0; and the bytes from the end of
\* the last row to the end of the sub-frame are 0.
C24_SampleRows ==
    /\ state.nddc >= 1
    /\ state.nddc <= 10
    /\ out.kind = "data" =>
          \A k \in 1..2 :
              \A p \in {SubframePayload(state, out.packet.sf[k].off)} :
              LET sf == out.packet.sf[k]
                  n == state.nddc
                  spr == 504 \div (6 * n + 2)
              IN  /\ spr >= 1
                  /\ ~p.panicked
                  /\ sf.rows = spr
                  /\ sf.rowlen = 6 * n + 2
                  /\ sf.end = sf.off + 8 + spr * (6 * n + 2)
                  /\ p.data_offset = sf.end
                  /\ p.top = sf.end - 1
                  /\ p.top < sf.off + 512
                  /\ \A r \in 0..(spr - 1) :
                        LET row == sf.off + 8 + r * (6 * n + 2)
                        IN  /\ \A j \in 0..(6 * n - 1) : ByteAt(p, row + j) = "iq"
                            /\ ByteAt(p, row + 6 * n) = "mic"
                            /\ ByteAt(p, row + 6 * n + 1) = "mic"
                  /\ \A j \in sf.end..(sf.off + 511) : ByteAt(p, j) = "zero"

\* a packet of a Saturn left at its 10 DDCs: 8 rows of 62 bytes, 8 bytes of
\* the payload left over in each sub-frame
C24_Witness ==
    /\ out.kind = "data"
    /\ state.hw = "Saturn"
    /\ state.nddc = 10
    /\ out.packet.sf[2].rows = 8
    /\ out.packet.sf[2].rowlen = 62
    /\ out.packet.sf[2].end = 520 + 504

(***************************************************************************)
(* Locks.  The three mutexes are tokio's, which are not re-entrant; the    *)
(* engine is one task.  For each handler, the lock and socket operations   *)
(* it performs, in order, on the path the server value w and the input      *)
(* select.                                                                  *)
(***************************************************************************)
Acq(l) == <<"acquire", l>>

Rel(l) == <<"release", l>>

Io(what) == <<"io", what>>

\* a guard that lives for one statement or one block
Scoped(l) == <<Acq(l), Rel(l)>>

\* build_discovery_response: s is held to the end of the function (line 46)
build_discovery_response_locks == Scoped("state")

\* mutant: the state lock is still held when the echo lock is taken
process_control_locks_NoDrop(w, c0, c1) ==
    <<Acq("state")>>
      \o (IF (BitAnd(c0, 1) # 0) # w.state.ptt
          THEN <<Acq("echo"), Rel("echo")>>
          ELSE <<>>)
      \o <<Rel("state")>>

\* process_control: s from line 68 to the end; on a change of MOX drop(s),
\* echo_guard, s again inside echo_guard's block (lines 76-87); on a change of
\* the rate drop(s), the signal generator for one statement, s again (97-99)
process_control_locks(w, c0, c1) ==
    LET rate == code_to_sample_rate(BitAnd(c1, 3))
    IN  <<Acq("state")>>
          \o (IF (BitAnd(c0, 1) # 0) # w.state.ptt
              THEN <<Rel("state"), Acq("echo"), Acq("state"), Rel("echo")>>
              ELSE <<>>)
          \o (IF BitAnd(c0, 254) = 0 /\ rate # <<>> /\ w.state.sample_rate # rate[1]
              THEN <<Rel("state")>> \o Scoped("siggen") \o <<Acq("state")>>
              ELSE <<>>)
          \o <<Rel("state")>>

\* one turn of handle_host_data's loop: process_control, ptt read under the
\* state lock for one statement (line 153), echo_guard if ptt (lines 154-162)
HostSubframe_locks(w, sf) ==
    IF sf.sync # SYNC THEN <<>>
    ELSE process_control_locks(w, sf.c0, sf.c1)
           \o Scoped("state")
           \o (IF process_control(w, sf.c0, sf.c1, sf.c2, sf.c3, sf.c4).state.ptt
               THEN Scoped("echo")
               ELSE <<>>)

handle_host_data_locks(w, data) ==
    IF data.len < PACKET_SIZE THEN <<>>
    ELSE HostSubframe_locks(w, data.sf[1])
           \o HostSubframe_locks(HostSubframe(w, data.sf[1]), data.sf[2])

\* fill_subframe: s from line 170 to drop(s) (234); echo_guard (238), dropped
\* at the end of its block or, without an echo buffer, before sg (247-248)
fill_subframe_locks(w) ==
    Scoped("state")
      \o (IF w.echo # <<>> THEN Scoped("echo")
          ELSE Scoped("echo") \o Scoped("siggen"))

\* build_data_packet: next_seq under the state lock for one statement (274),
\* then the two sub-frames
build_data_packet_locks(w) ==
    Scoped("state") \o fill_subframe_locks(w) \o fill_subframe_locks(w)

\* a receive of either branch: recv_from, then the arm of the datagram
\* (lines 358-392 and 401-430)
Recv_locks(w, d) ==
    <<Io("recv_from")>>
      \o (IF BadHeader(d) THEN <<>>
          ELSE CASE d.b2 = 2 -> build_discovery_response_locks \o <<Io("send_to")>>
                 [] d.b2 = 4 /\ d.len > 3 /\ d.b3 \in {0, 1} -> Scoped("state")
                 [] d.b2 = 1 -> handle_host_data_locks(w, d)
                 [] OTHER -> <<>>)

\* the timer arm: tick, running read for one statement (345), then the packet
\* and send_to (351-355)
Tick_locks(w, ca) ==
    <<Io("tick")>>
      \o Scoped("state")
      \o (IF w.state.running /\ ca # <<>>
          THEN build_data_packet_locks(w) \o <<Io("send_to")>>
          ELSE <<>>)

\* entering the streaming branch: nddc and sample_rate read in a block (331-334)
EnterStreaming_locks == Scoped("state")

\* the operations ops[i..] keep the discipline when the task holds the locks
\* in held: no lock is taken that is held, echo and siggen are taken with
\* nothing held, state with nothing or only echo held, a socket or timer
\* operation finds nothing held, and nothing is held at the end
RECURSIVE Disciplined(_, _, _)
Disciplined(ops, i, held) ==
    IF i > Len(ops) THEN held = {}
    ELSE LET op == ops[i][1]
             l == ops[i][2]
         IN  CASE op = "acquire" ->
                    /\ l \notin held
                    /\ IF l = "state" THEN held \subseteq {"echo"} ELSE held = {}
                    /\ Disciplined(ops, i + 1, held \cup {l})
               [] op = "release" ->
                    /\ l \in held
                    /\ Disciplined(ops, i + 1, held \ {l})
               [] OTHER ->
                    /\ held = {}
                    /\ Disciplined(ops, i + 1, held)

\* C26: on every path through discovery, control processing, host-data
\* handling and packet building no lock is acquired while it is held, the
\* state lock is not held when the echo or the signal-generator lock is
\* acquired (the one nesting is echo held, then state), and no lock is held
\* across recv_from, send_to or the timer's tick, nor when the handler returns;
\* so no acquisition of the single task can block and every handler completes.
C26_LockDiscipline ==
    [][/\ inp'.kind = "recv" =>
             \A ops \in {Recv_locks(Server, inp'.d)} : Disciplined(ops, 1, {})
       /\ inp'.kind = "tick" =>
             \A ops \in {Tick_locks(Server, client_addr)} : Disciplined(ops, 1, {})
       /\ inp'.kind = "enter" =>
             \A ops \in {EnterStreaming_locks} : Disciplined(ops, 1, {})]_vars

\* while streaming, after a packet was built, one data packet has keyed down
\* in its first sub-frame and up in its second: process_control took the
\* state lock inside the echo guard twice
C26_Witness ==
    /\ Received
    /\ inp.mode = "stream"
    /\ inp.d.sf[1] = HostSf(<<127, 127, 127>>, <<3, 0, 111, 18, 56>>, 1)
    /\ inp.d.sf[2] = HostSf(<<127, 127, 127>>, <<18, 100, 0, 0, 0>>, 1)
    /\ nBuilt >= 1
    /\ echo # <<>>
    /\ ~echo[1].is_recording
    /\ echo[1].recording_freq = 7074000
    /\ DOMAIN echo[1].echoes = {7074000}
    /\ VLen(echo[1].echoes[7074000]) = 63
    /\ state.sample_rate = 192000

=============================================================================
